---- MODULE Spec2Model ----
(***************************************************************************)
(* The API contract synchronisation pipeline of hello-world-starter:       *)
(*   generate-api-types.js   (types, validators, post-process, index)      *)
(*   post-process-schemas.js (the required-field reinforcer)               *)
(*   check-endpoints.js      (the consistency auditor)                     *)
(*                                                                         *)
(* Text is modelled at the granularity the scripts' regular expressions    *)
(* see it.  A property name is a sequence of letters, so that the          *)
(* unanchored pattern `${field}:` can match the tail of a longer name.  A  *)
(* check such as z.string().max(255).email() is a sequence of tokens; a    *)
(* token knows whether its text holds a comma or a closing brace.  A       *)
(* declaration body is a sequence of entries laid out one per line, as in  *)
(* generated/api-client.ts, so a body occurs inside another body exactly   *)
(* when its entries are a contiguous run of the other's entries.           *)
(***************************************************************************)
EXTENDS Integers, Sequences, FiniteSets, TLC

\* ------------------------------------------------------------------ bounds
MaxStrLen == 3
MaxRuns == 3

\* ------------------------------------------------------------ basic values
NoMsg == <<>>
NoBody == <<>>
NoId == <<>>
NoRef == <<>>
LengthLimit == 2

Tok(op, n, msg) == [op |-> op, n |-> n, msg |-> msg]
TString == Tok("string", 0, NoMsg)
TNumber == Tok("number", 0, NoMsg)
TObject == Tok("object", 0, NoMsg)
TInt == Tok("int", 0, NoMsg)
TOptional == Tok("optional", 0, NoMsg)
TEmail == Tok("email", 0, NoMsg)
TUrl == Tok("url", 0, NoMsg)
TMin(n) == Tok("min", n, NoMsg)
TMax(n) == Tok("max", n, NoMsg)
TMinMsg(n, field) == Tok("min", n, field)

\* the text of a token holds a comma: .min(1, { message: '...' })
HasComma(t) == t.op = "min" /\ t.msg # NoMsg
\* the text of a token holds a closing brace
HasBrace(t) == t.op = "object" \/ (t.op = "min" /\ t.msg # NoMsg)

IsSuffix(s, t) ==
  /\ Len(s) <= Len(t)
  /\ SubSeq(t, Len(t) - Len(s) + 1, Len(t)) = s

RECURSIVE SeqFilter(_, _)
SeqFilter(s, keep) ==
  IF s = <<>> THEN <<>>
  ELSE IF keep[1] THEN <<s[1]>> \o SeqFilter(Tail(s), Tail(keep))
  ELSE SeqFilter(Tail(s), Tail(keep))

Absent == [exists |-> FALSE, decls |-> <<>>, endpoints |-> <<>>]

\* ------------------------------------------------- the validator synthesizer
\* openapi-zod-client, as witnessed by openapi.json against api-client.ts:
\* type, then min, max, format, then .optional() for a non-required property
PropChain(p) ==
  LET opt == IF p.required THEN <<>> ELSE <<TOptional>>
  IN  IF p.type = "string"
      THEN <<TString>>
           \o (IF p.minLength > 0 THEN <<TMin(p.minLength)>> ELSE <<>>)
           \o (IF p.maxLength > 0 THEN <<TMax(p.maxLength)>> ELSE <<>>)
           \o (IF p.format = "email" THEN <<TEmail>>
               ELSE IF p.format = "uri" THEN <<TUrl>> ELSE <<>>)
           \o opt
      ELSE IF p.type = "integer" THEN <<TNumber, TInt>> \o opt
      ELSE <<TObject>> \o opt

SchemaBody(schema) ==
  [i \in 1..Len(schema) |-> [key |-> schema[i].key, chain |-> PropChain(schema[i])]]

\* operationId.replace(/\./g, '_') + '_Body': the segments joined by '_'
SchemaName(operationId) == operationId \o <<"Body">>

RECURSIVE SynthDecls(_, _, _)
SynthDecls(ops, comps, emitted) ==
  IF ops = <<>> THEN <<>>
  ELSE LET op == ops[1]
           bodyDecl == [name |-> IF op.operationId = NoId
                                 THEN <<op.method, op.path, "Body">>
                                 ELSE SchemaName(op.operationId),
                        body |-> SchemaBody(op.body)]
           body == IF op.body = NoBody THEN <<>> ELSE << bodyDecl >>
           refDecl == [name |-> op.resp, body |-> SchemaBody(comps[op.resp])]
           ref == IF op.resp = NoRef \/ op.resp \in emitted THEN <<>>
                  ELSE << refDecl >>
       IN  body \o ref \o SynthDecls(Tail(ops), comps, emitted \cup {op.resp})

\* the alias is the operationId; without one it is made of method and path
Alias(op) == IF op.operationId = NoId THEN <<op.method \o op.path>> ELSE op.operationId

SynthEndpoints(ops) ==
  [i \in 1..Len(ops) |->
     [method |-> ops[i].method, path |-> ops[i].path, alias |-> Alias(ops[i])]]

Synthesize(doc) ==
  [exists |-> TRUE,
   decls |-> SynthDecls(doc.ops, doc.comps, {}),
   endpoints |-> SynthEndpoints(doc.ops)]

\* ------------------------------------------------ post-process-schemas.js
RequiredOf(schema) ==
  LET keys == [i \in 1..Len(schema) |-> schema[i].key]
      keep == [i \in 1..Len(schema) |-> schema[i].required]
  IN  SeqFilter(keys, keep)

RECURSIVE RequiredFieldsOfOps(_)
RequiredFieldsOfOps(ops) ==
  IF ops = <<>> THEN <<>>
  ELSE LET op == ops[1]
           entry == [schemaName |-> SchemaName(op.operationId),
                     requiredFields |-> RequiredOf(op.body)]
           here == IF op.operationId # NoId /\ op.body # NoBody
                      /\ Len(RequiredOf(op.body)) > 0
                   THEN << entry >>
                   ELSE <<>>
       IN here \o RequiredFieldsOfOps(Tail(ops))

\* faulty variant: only the first required field of each schema is kept
getRequiredFieldsFirstOnly(doc) ==
  LET map == RequiredFieldsOfOps(doc.ops)
  IN  [k \in 1..Len(map) |->
         [map[k] EXCEPT !.requiredFields = <<map[k].requiredFields[1]>>]]

getRequiredFieldsFromOpenAPI(doc) == RequiredFieldsOfOps(doc.ops)

\* p1 = ([^,]*): the text after z.string() up to the first comma
FirstComma(chain) ==
  IF \E i \in 2..Len(chain) : HasComma(chain[i])
  THEN CHOOSE i \in 2..Len(chain) :
         HasComma(chain[i]) /\ \A j \in 2..(i - 1) : ~HasComma(chain[j])
  ELSE Len(chain) + 1

\* faulty variant: any check after z.string() counts as existing validation
AlreadyValidatedAnyCheck(chain) == Len(chain) > 1

\* p1.includes('.min(') || p1.includes('.email()')
AlreadyValidated(chain) ==
  LET c == FirstComma(chain)
  IN  \/ \E i \in 2..Len(chain) : i <= c /\ chain[i].op = "min"
      \/ \E i \in 2..Len(chain) : i < c /\ chain[i].op = "email"

\* faulty variant: the pattern asks for the comma right after z.string()
FieldMatchesBareOnly(field, e) == IsSuffix(field, e.key) /\ e.chain = <<TString>>

\* `${field}:\s*z\.string\(\)` found in the text of an entry
FieldMatches(field, e) == IsSuffix(field, e.key) /\ e.chain[1] = TString

\* faulty variant: the rewritten check loses what followed z.string()
RewriteEntryDropRest(field, e) ==
  IF FieldMatches(field, e) /\ ~AlreadyValidated(e.chain)
  THEN [e EXCEPT !.chain = <<TString, TMinMsg(1, field)>>]
  ELSE e

RewriteEntry(field, e) ==
  IF FieldMatches(field, e) /\ ~AlreadyValidated(e.chain)
  THEN [e EXCEPT !.chain = <<TString, TMinMsg(1, field)>> \o Tail(e.chain)]
  ELSE e

RewriteField(body, field) == [i \in 1..Len(body) |-> RewriteEntry(field, body[i])]

RECURSIVE RewriteFields(_, _)
RewriteFields(body, fields) ==
  IF fields = <<>> THEN body
  ELSE RewriteFields(RewriteField(body, fields[1]), Tail(fields))

\* const NAME = z.object({([^}]+)}).passthrough();
PatternFound(decl, schemaName) ==
  /\ decl.name = schemaName
  /\ Len(decl.body) > 0
  /\ \A i \in 1..Len(decl.body) :
       \A j \in 1..Len(decl.body[i].chain) : ~HasBrace(decl.body[i].chain[j])

OccursAt(decls, X, d, o) ==
  /\ o + Len(X) - 1 <= Len(decls[d].body)
  /\ SubSeq(decls[d].body, o, o + Len(X) - 1) = X

Earlier(d1, o1, d2, o2) == d1 < d2 \/ (d1 = d2 /\ o1 <= o2)

\* content.replace(match[1], schemaContent): the first occurrence of the text
ReplaceFirst(decls, X, Y) ==
  LET Pos == UNION {{<<d, o>> : o \in 1..Len(decls[d].body)} : d \in 1..Len(decls)}
      Occ == {p \in Pos : OccursAt(decls, X, p[1], p[2])}
  IN  IF Occ = {} THEN decls
      ELSE LET p == CHOOSE q \in Occ : \A r \in Occ : Earlier(q[1], q[2], r[1], r[2])
               old == decls[p[1]].body
               new == SubSeq(old, 1, p[2] - 1) \o Y
                      \o SubSeq(old, p[2] + Len(X), Len(old))
           IN  [decls EXCEPT ![p[1]].body = new]

ProcessSchema(decls, schemaName, requiredFields) ==
  IF \E d \in 1..Len(decls) : PatternFound(decls[d], schemaName)
  THEN LET d == CHOOSE i \in 1..Len(decls) : PatternFound(decls[i], schemaName)
           schemaContent == RewriteFields(decls[d].body, requiredFields)
       IN  ReplaceFirst(decls, decls[d].body, schemaContent)
  ELSE decls

RECURSIVE ProcessSchemas(_, _)
ProcessSchemas(decls, map) ==
  IF map = <<>> THEN decls
  ELSE ProcessSchemas(ProcessSchema(decls, map[1].schemaName, map[1].requiredFields),
                      Tail(map))

addRequiredValidationToZodSchemas(requiredFieldsMap, content) ==
  [content EXCEPT !.decls = ProcessSchemas(content.decls, requiredFieldsMap)]

\* ---------------------------------------------------- what a check accepts
\* zod: a non-string fails z.string() at once; every later check of a string
\* reports its own issue; .optional() lets undefined through
Undefined == [t |-> "undefined", len |-> 0, fmt |-> "plain"]
EmptyString == [t |-> "string", len |-> 0, fmt |-> "plain"]
StringValues ==
  {[t |-> "string", len |-> l, fmt |-> f] :
     l \in 0..MaxStrLen, f \in {"plain", "email", "url"}}
  \ {[t |-> "string", len |-> 0, fmt |-> f] : f \in {"email", "url"}}
NumberValue == [t |-> "number", len |-> 0, fmt |-> "plain"]
ObjectValue == [t |-> "object", len |-> 0, fmt |-> "plain"]
Values == {Undefined, NumberValue, ObjectValue} \cup StringValues

Issue(code, field) == [code |-> code, field |-> field]

TokenIssues(t, v) ==
  IF t.op = "min" /\ v.len < t.n
  THEN <<Issue(IF t.msg = NoMsg THEN "too_small" ELSE "is required", t.msg)>>
  ELSE IF t.op = "max" /\ v.len > t.n THEN <<Issue("too_big", NoMsg)>>
  ELSE IF t.op = "email" /\ v.fmt # "email" THEN <<Issue("invalid_email", NoMsg)>>
  ELSE IF t.op = "url" /\ v.fmt # "url" THEN <<Issue("invalid_url", NoMsg)>>
  ELSE <<>>

RECURSIVE ChecksIssues(_, _)
ChecksIssues(toks, v) ==
  IF toks = <<>> THEN <<>>
  ELSE TokenIssues(toks[1], v) \o ChecksIssues(Tail(toks), v)

BaseType(t) == t.op

IssuesOf(chain, v) ==
  IF v = Undefined /\ \E i \in 1..Len(chain) : chain[i] = TOptional THEN <<>>
  ELSE IF v = Undefined THEN <<Issue("Required", NoMsg)>>
  ELSE IF v.t # BaseType(chain[1]) THEN <<Issue("invalid_type", NoMsg)>>
  ELSE ChecksIssues(Tail(chain), v)

Accepts(chain, v) == IssuesOf(chain, v) = <<>>

\* ------------------------------------------------------ the type projector
\* openapi-typescript: one declaration per schema, names and optionality only
TypeOfSchema(schema) ==
  [i \in 1..Len(schema) |->
     [key |-> schema[i].key, type |-> schema[i].type, optional |-> ~schema[i].required]]

ProjectTypes(doc) ==
  [exists |-> TRUE,
   decls |-> [i \in 1..Len(doc.ops) |->
                [name |-> Alias(doc.ops[i]), body |-> TypeOfSchema(doc.ops[i].body)]],
   endpoints |-> <<>>]

\* the index file of generate-api-types.js, lines 54-57
IndexContent ==
  [exists |-> TRUE, decls |-> <<>>,
   endpoints |-> <<"export * from './api-types'", "export * from './api-client'">>]

\* faulty variant: the output is appended to an existing file
WriteFileAppend(old, new) ==
  IF old.exists
  THEN [new EXCEPT !.decls = old.decls \o new.decls,
                   !.endpoints = old.endpoints \o new.endpoints]
  ELSE new

\* execSync(`... --output FILE`) and fs.writeFileSync replace the whole file
WriteFile(old, new) == new

\* --------------------------------------------------- the contract documents
Kn == <<"n">>
Kun == <<"u", "n">>
Ke == <<"e">>
Keys == {Kn, Kun}

Prop(key, type, min, max, format, required) ==
  [key |-> key, type |-> type, minLength |-> min, maxLength |-> max,
   format |-> format, required |-> required]

RichProps ==
  {Prop(k, "string", mn, mx, f, r) :
     k \in Keys, mn \in {0, LengthLimit}, mx \in {0, LengthLimit},
     f \in {"none", "email", "uri"}, r \in BOOLEAN}
  \cup {Prop(k, t, 0, 0, "none", r) : k \in Keys, t \in {"integer", "object"}, r \in BOOLEAN}

PlainProps ==
  {Prop(k, "string", 0, 0, "none", r) : k \in Keys, r \in BOOLEAN}
  \cup {Prop(k, "string", 0, LengthLimit, "none", TRUE) : k \in Keys}
  \cup {Prop(k, "object", 0, 0, "none", TRUE) : k \in Keys}

SchemasOver(props) ==
  {<<p>> : p \in props}
  \cup {<<pq[1], pq[2]>> : pq \in {x \in props \X props : x[1].key # x[2].key}}

Op(method, path, operationId, body, resp) ==
  [method |-> method, path |-> path, operationId |-> operationId,
   body |-> body, resp |-> resp]

Doc(ops, comps) == [kind |-> "doc", ops |-> ops, comps |-> comps]
Missing == [kind |-> "missing", ops |-> <<>>, comps |-> <<>>]
Unparseable == [kind |-> "unparseable", ops |-> <<>>, comps |-> <<>>]

LoginId == <<"auth", "login">>
StoreId == <<"note", "store">>
UserId == <<"auth", "user">>
UserResource == <<"UserResource">>

\* one request body, every shape of property
RichDocs ==
  {Doc(<<Op("post", "/auth/login", LoginId, s, NoRef)>>, <<>>) : s \in SchemasOver(RichProps)}

\* an operation without operationId
AnonDocs ==
  {Doc(<<Op("post", "/auth/login", NoId, s, NoRef)>>, <<>>) : s \in SchemasOver(PlainProps)}

\* two request bodies
TwoBodyDocs ==
  {Doc(<<Op("post", "/auth/login", LoginId, s, NoRef),
         Op("post", "/notes", StoreId, t, NoRef)>>, <<>>) :
     s \in SchemasOver(PlainProps), t \in SchemasOver(PlainProps)}

\* a shared component emitted before a request body
ComponentDocs ==
  {Doc(<<Op("get", "/auth/user", UserId, NoBody, UserResource),
         Op("post", "/notes", StoreId, t, NoRef)>>, (UserResource :> s)) :
     s \in SchemasOver(PlainProps), t \in SchemasOver(PlainProps)}

\* the contract of the repository under its own names; 255 is scaled down to
\* LengthLimit, and no name of a property is the tail of another
Kid == <<"id">>
Kname == <<"name">>
Kemail == <<"email">>
Kpassword == <<"password">>
Kconfirmation == <<"password_confirmation">>
Ktitle == <<"title">>
Kcontent == <<"content">>
KuserId == <<"userId">>
KauthorName == <<"authorName">>
Kcreated == <<"created_at">>
Kupdated == <<"updated_at">>
RegisterId == <<"auth", "register">>
LogoutId == <<"auth", "logout">>
IndexId == <<"note", "index">>
NoteResource == <<"NoteResource">>

Required(key, type) == Prop(key, type, 0, 0, "none", TRUE)

RegisterBody ==
  <<Prop(Kname, "string", 0, LengthLimit, "none", TRUE),
    Prop(Kemail, "string", 0, LengthLimit, "email", TRUE),
    Required(Kpassword, "string"), Required(Kconfirmation, "string")>>
LoginBody == <<Prop(Kemail, "string", 0, 0, "email", TRUE), Required(Kpassword, "string")>>
StoreBody == <<Prop(Ktitle, "string", 0, LengthLimit, "none", TRUE), Required(Kcontent, "string")>>
UserResourceSchema ==
  <<Required(Kid, "integer"), Required(Kname, "string"), Required(Kemail, "string"),
    Required(Kcreated, "string"), Required(Kupdated, "string")>>
NoteResourceSchema ==
  <<Required(Kid, "integer"), Required(Ktitle, "string"), Required(Kcontent, "string"),
    Required(KuserId, "integer"), Prop(KauthorName, "string", 0, 0, "none", FALSE),
    Required(Kcreated, "string"), Required(Kupdated, "string")>>
Components == (UserResource :> UserResourceSchema) @@ (NoteResource :> NoteResourceSchema)

OpRegister == Op("post", "/auth/register", RegisterId, RegisterBody, UserResource)
OpLogin == Op("post", "/auth/login", LoginId, LoginBody, UserResource)
OpLogout == Op("post", "/auth/logout", LogoutId, NoBody, NoRef)
OpUser == Op("get", "/auth/user", UserId, NoBody, UserResource)
OpIndex == Op("get", "/notes", IndexId, NoBody, NoteResource)
OpStore == Op("post", "/notes", StoreId, StoreBody, NoteResource)

OpenApiJson == Doc(<<OpRegister, OpLogin, OpLogout, OpUser, OpIndex, OpStore>>, Components)

\* the repository's contract and contracts declaring one of its request bodies
ScenarioDocs ==
  {OpenApiJson,
   Doc(<<OpStore>>, Components),
   Doc(<<OpLogin>>, Components),
   Doc(<<OpRegister>>, Components)}

GenDocs == RichDocs \cup AnonDocs \cup TwoBodyDocs \cup ComponentDocs \cup ScenarioDocs

\* the contract of the repository, lengths scaled down
RepoLogin ==
  Op("post", "/auth/login", LoginId,
     <<Prop(Ke, "string", 0, 0, "email", TRUE), Prop(Kn, "string", 0, 0, "none", TRUE)>>,
     UserResource)
RepoStore ==
  Op("post", "/notes", StoreId,
     <<Prop(Kn, "string", 0, LengthLimit, "none", TRUE),
       Prop(Kun, "string", 0, 0, "none", TRUE)>>, NoRef)
RepoUser ==
  <<Prop(Ke, "integer", 0, 0, "none", TRUE), Prop(Kn, "string", 0, 0, "none", TRUE)>>
RepoDocs ==
  {Doc(<<RepoLogin>>, (UserResource :> RepoUser)),
   Doc(<<RepoLogin, RepoStore>>, (UserResource :> RepoUser)),
   Doc(<<RepoStore>>, <<>>)}

Contracts == RepoDocs \cup {Missing, Unparseable}

\* ------------------------------------------------------------------- state
VARIABLES
  contract,     \* apps/laravel-api/storage/openapi.json
  outDir,       \* src/generated exists
  typesFile,    \* src/generated/api-types.ts
  clientFile,   \* src/generated/api-client.ts
  indexFile,    \* src/generated/index.ts
  pc,           \* position of the generation run
  exitCode,     \* exit status of the last generation run
  console,      \* what the current generation run printed
  runsLeft,     \* generation runs still allowed
  atStart,      \* the three files when the current run started
  lastGood,     \* contract and files of the last run that exited zero
  repeats,      \* successful runs in a row on lastGood's contract
  auditExit,    \* exit status of the last auditor run
  extractedEndpoints, \* the auditor's endpoint list
  auditReport,  \* what the auditor printed
  token,        \* useTokenStore: the stored token, or null
  userQuery,    \* the ['auth', 'user'] query of the query cache
  notesQuery,   \* the ['notes'] query of the query cache
  pending,      \* the mutations that are pending
  screen,       \* the screen that is mounted
  formData,     \* the data of the last form submission of the screen
  errors,       \* useFormErrors of the screen: fieldErrors and generalError
  requests,     \* HTTP requests on their way to the backend
  responses,    \* HTTP responses on their way to the client
  task,         \* the callback chain the client is running
  storage,      \* SecureStorage: the token persisted under auth-token-storage
  hydrated,     \* the persist middleware has read the storage
  sent,         \* number of requests sent so far
  accessTokens, \* backend: personal_access_tokens, token and owner
  notes         \* backend: the notes table

files == <<typesFile, clientFile, indexFile>>
genVars == <<outDir, typesFile, clientFile, indexFile, pc, exitCode, console,
             runsLeft, atStart, lastGood, repeats>>
auditVars == <<auditExit, extractedEndpoints, auditReport>>
clientVars == <<token, userQuery, notesQuery, pending, screen, formData, errors, task>>
netVars == <<requests, responses, sent>>
backendVars == <<accessTokens, notes>>
bootVars == <<storage, hydrated>>
appVars == <<clientVars, netVars, backendVars, bootVars>>
vars == <<contract, genVars, auditVars, appVars>>

NotRun == -1
NoReport == [count |-> 0, groups |-> <<>>, loginExists |-> FALSE]
NoGood == [valid |-> FALSE, doc |-> Missing, files |-> <<Absent, Absent, Absent>>]

\* ------------------------------------------------ the client application
MaxRequests == 2
MaxNotes == 2
MaxInFlight == 1

Null == "null"
Tokens == {"t1", "t2"}
Users == {"alice", "bob"}
NoData == "undefined"

\* the query cache holds no ['auth', 'user'] query
NoQuery ==
  [exists |-> FALSE, data |-> NoData, status |-> "pending", isInvalidated |-> FALSE,
   fetch |-> 0, failureCount |-> 0]
NoFormData ==
  [id |-> 0, valid |-> TRUE, input |-> <<>>, same |-> TRUE, hadErrors |-> FALSE,
   handled |-> 0]
Ktoken == <<"token">>
FormKeys == {Kname, Kemail, Kpassword, Kconfirmation, Ktitle, Kcontent, Ktoken}
NoErrors == [fieldErrors |-> [k \in FormKeys |-> ""], generalError |-> ""]
NoResponse ==
  [id |-> 0, via |-> "apiClient", op |-> "none", status |-> 0, token |-> "",
   user |-> "", fields |-> {}, notes |-> {}]
Task(phase, resp, enabled) == [phase |-> phase, resp |-> resp, enabled |-> enabled]
Idle == Task("idle", NoResponse, FALSE)

\* the application before it is opened, the backend before any request
AppStart ==
  /\ token = Null
  /\ userQuery = NoQuery
  /\ notesQuery = NoQuery
  /\ pending = {}
  /\ screen = "login"
  /\ formData = NoFormData
  /\ errors = NoErrors
  /\ requests = {}
  /\ responses = {}
  /\ task = Idle
  /\ sent = 0
  /\ storage = Null
  /\ hydrated = TRUE
  /\ accessTokens = {}
  /\ notes = {}

InitRest ==
  /\ outDir = FALSE
  /\ typesFile = Absent
  /\ clientFile = Absent
  /\ indexFile = Absent
  /\ pc = "idle"
  /\ exitCode = NotRun
  /\ console = <<>>
  /\ atStart = <<Absent, Absent, Absent>>
  /\ lastGood = NoGood
  /\ repeats = 0
  /\ auditExit = NotRun
  /\ extractedEndpoints = <<>>
  /\ auditReport = NoReport

Init ==
  /\ contract \in Contracts
  /\ runsLeft = MaxRuns
  /\ InitRest
  /\ AppStart

InitGen ==
  /\ contract \in GenDocs
  /\ runsLeft = 1
  /\ InitRest
  /\ AppStart

\* ------------------------------------------------- generate-api-types.js
Exit(code, line) ==
  /\ pc' = "exited"
  /\ exitCode' = code
  /\ console' = console \o line

StartRun ==
  /\ pc \in {"idle", "exited"}
  /\ runsLeft > 0
  /\ runsLeft' = runsLeft - 1
  /\ pc' = "preflight"
  /\ console' = <<>>
  /\ atStart' = files
  /\ UNCHANGED <<contract, outDir, typesFile, clientFile, indexFile, exitCode,
                 lastGood, repeats, auditVars, appVars>>

\* lines 16-27
Preflight ==
  /\ pc = "preflight"
  /\ outDir' = TRUE
  /\ IF contract.kind = "missing"
     THEN Exit(1, <<"OpenAPI JSON file not found">>)
     ELSE pc' = "types" /\ UNCHANGED <<exitCode, console>>
  /\ UNCHANGED <<contract, typesFile, clientFile, indexFile, runsLeft, atStart,
                 lastGood, repeats, auditVars, appVars>>

\* faulty variant: a failing type projector has already emptied its output file
StageTypesTruncating ==
  /\ pc = "types"
  /\ \E toolOk \in BOOLEAN :
       IF toolOk /\ contract.kind = "doc"
       THEN /\ typesFile' = WriteFile(typesFile, ProjectTypes(contract))
            /\ pc' = "validators"
            /\ console' = console \o <<"types:start", "types:ok">>
            /\ UNCHANGED exitCode
       ELSE /\ Exit(1, <<"types:start", "error">>)
            /\ typesFile' = [exists |-> TRUE, decls |-> <<>>, endpoints |-> <<>>]
  /\ UNCHANGED <<contract, outDir, clientFile, indexFile, runsLeft, atStart,
                 lastGood, repeats, auditVars, appVars>>

\* lines 30-35; the catch of lines 63-66 on failure
StageTypes ==
  /\ pc = "types"
  /\ \E toolOk \in BOOLEAN :
       IF toolOk /\ contract.kind = "doc"
       THEN /\ typesFile' = WriteFile(typesFile, ProjectTypes(contract))
            /\ pc' = "validators"
            /\ console' = console \o <<"types:start", "types:ok">>
            /\ UNCHANGED exitCode
       ELSE /\ Exit(1, <<"types:start", "error">>)
            /\ UNCHANGED typesFile
  /\ UNCHANGED <<contract, outDir, clientFile, indexFile, runsLeft, atStart,
                 lastGood, repeats, auditVars, appVars>>

\* lines 37-46
StageValidators ==
  /\ pc = "validators"
  /\ \E toolOk \in BOOLEAN :
       IF toolOk /\ contract.kind = "doc"
       THEN /\ clientFile' = WriteFile(clientFile, Synthesize(contract))
            /\ pc' = "postprocess"
            /\ console' = console \o <<"validators:start", "validators:ok">>
            /\ UNCHANGED exitCode
       ELSE /\ Exit(1, <<"validators:start", "error">>)
            /\ UNCHANGED clientFile
  /\ UNCHANGED <<contract, outDir, typesFile, indexFile, runsLeft, atStart,
                 lastGood, repeats, auditVars, appVars>>

\* faulty variant: the exit status of the child is ignored and the run goes on
StagePostProcessLenient ==
  /\ pc = "postprocess"
  /\ \E ioOk \in BOOLEAN :
       IF ioOk /\ contract.kind = "doc" /\ clientFile.exists
       THEN /\ clientFile' =
                 WriteFile(clientFile,
                           addRequiredValidationToZodSchemas(
                             getRequiredFieldsFromOpenAPI(contract), clientFile))
            /\ console' = console \o <<"postprocess:start", "child:start",
                                       "child:added", "postprocess:ok">>
       ELSE /\ console' = console \o <<"postprocess:start", "child:start",
                                       "child:error", "error">>
            /\ UNCHANGED clientFile
  /\ pc' = "index"
  /\ UNCHANGED <<contract, outDir, typesFile, indexFile, runsLeft, atStart,
                 lastGood, repeats, auditVars, appVars, exitCode>>

\* lines 48-51, running post-process-schemas.js lines 86-97 as a child
StagePostProcess ==
  /\ pc = "postprocess"
  /\ \E ioOk \in BOOLEAN :
       IF ioOk /\ contract.kind = "doc" /\ clientFile.exists
       THEN /\ clientFile' =
                 WriteFile(clientFile,
                           addRequiredValidationToZodSchemas(
                             getRequiredFieldsFromOpenAPI(contract), clientFile))
            /\ pc' = "index"
            /\ console' = console \o <<"postprocess:start", "child:start",
                                       "child:added", "postprocess:ok">>
            /\ UNCHANGED exitCode
       ELSE /\ Exit(1, <<"postprocess:start", "child:start", "child:error", "error">>)
            /\ UNCHANGED clientFile
  /\ UNCHANGED <<contract, outDir, typesFile, indexFile, runsLeft, atStart,
                 lastGood, repeats, auditVars, appVars>>

\* lines 53-62
StageIndex ==
  /\ pc = "index"
  /\ \E ioOk \in BOOLEAN :
       IF ioOk
       THEN /\ indexFile' = WriteFile(indexFile, IndexContent)
            /\ Exit(0, <<"index:created", "completed">>)
            /\ lastGood' = [valid |-> TRUE, doc |-> contract,
                            files |-> <<typesFile, clientFile, IndexContent>>]
            /\ repeats' = IF lastGood.valid /\ lastGood.doc = contract
                          THEN repeats + 1 ELSE 1
       ELSE /\ Exit(1, <<"error">>)
            /\ UNCHANGED <<indexFile, lastGood, repeats>>
  /\ UNCHANGED <<contract, outDir, typesFile, clientFile, runsLeft, atStart, auditVars, appVars>>

Generate == StartRun \/ Preflight \/ StageTypes \/ StageValidators
            \/ StagePostProcess \/ StageIndex

\* the backend exports, removes or damages the contract between runs
ExportContract ==
  /\ pc \in {"idle", "exited"}
  /\ \E d \in Contracts : contract' = d
  /\ UNCHANGED <<genVars, auditVars, appVars>>

NextGen == Generate
SpecGen == InitGen /\ [][NextGen]_vars

\* ----------------------------------------------- reading a finished run
\* the last generation run exited zero on the contract now on disk
GenDone == pc = "exited" /\ exitCode = 0 /\ lastGood.valid /\ lastGood.doc = contract

SynthOfContract == Synthesize(contract).decls
MapOfContract == getRequiredFieldsFromOpenAPI(contract)

HasDecl(decls, name) == \E d \in 1..Len(decls) : decls[d].name = name
DeclIndex(decls, name) == CHOOSE d \in 1..Len(decls) : decls[d].name = name

\* the schemas of the contract, in the order their declarations are emitted
BodyDeclName(op) ==
  IF op.operationId = NoId THEN <<op.method, op.path, "Body">>
  ELSE SchemaName(op.operationId)

NamedSchemas(doc) ==
  {[name |-> BodyDeclName(doc.ops[i]), schema |-> doc.ops[i].body] :
     i \in {j \in 1..Len(doc.ops) : doc.ops[j].body # NoBody}}
  \cup {[name |-> doc.ops[i].resp, schema |-> doc.comps[doc.ops[i].resp]] :
     i \in {j \in 1..Len(doc.ops) : doc.ops[j].resp # NoRef}}

\* a value of the declared primitive type, within the declared constraints
Conforms(p, v) ==
  IF p.type = "string"
  THEN /\ v.t = "string"
       /\ (p.minLength > 0 => v.len >= p.minLength)
       /\ (p.maxLength > 0 => v.len <= p.maxLength)
       /\ (p.format = "email" => v.fmt = "email")
       /\ (p.format = "uri" => v.fmt = "url")
  ELSE IF p.type = "integer" THEN v.t = "number"
  ELSE v.t = "object"

HasOp(chain, ops) == \E i \in 2..Len(chain) : chain[i].op \in ops
IsStringCheck(chain) == chain[1] = TString
BareString(chain) == IsStringCheck(chain) /\ ~HasOp(chain, {"min", "email", "url"})
Stricter(chain) == IsStringCheck(chain) /\ HasOp(chain, {"min", "email", "url"})
MaxOnly(chain) == Len(chain) = 2 /\ IsStringCheck(chain) /\ chain[2].op = "max"
InSeq(x, s) == \E i \in 1..Len(s) : s[i] = x

\* C1: after a successful run every required property of every schema of the
\* contract rejects undefined and the empty string and accepts every
\* non-empty value of its declared type.
C1_RequiredFieldClosure ==
  GenDone =>
    \A ns \in NamedSchemas(contract) :
      \A i \in 1..Len(ns.schema) :
        LET p == ns.schema[i]
            chain == clientFile.decls[DeclIndex(clientFile.decls, ns.name)].body[i].chain
        IN  (p.required /\ p.type \in {"string", "integer"}) =>
              /\ ~Accepts(chain, Undefined)
              /\ ~Accepts(chain, EmptyString)
              /\ \A v \in Values :
                   (Conforms(p, v) /\ v # EmptyString) => Accepts(chain, v)

\* C2: in a matched schema every required bare string check additionally
\* rejects the empty string with the message "<property> is required", and
\* the other constraints of the check are kept.
C2_ReinforcementRule ==
  GenDone =>
    \A k \in 1..Len(MapOfContract) :
      LET name == MapOfContract[k].schemaName
          before == SynthOfContract[DeclIndex(SynthOfContract, name)]
          after == clientFile.decls[DeclIndex(clientFile.decls, name)]
      IN  PatternFound(before, name) =>
            \A i \in 1..Len(before.body) :
              (InSeq(before.body[i].key, MapOfContract[k].requiredFields)
               /\ BareString(before.body[i].chain)) =>
                 /\ after.body[i].chain =
                      <<TString, TMinMsg(1, before.body[i].key)>>
                      \o Tail(before.body[i].chain)
                 /\ IssuesOf(after.body[i].chain, EmptyString)[1] =
                      Issue("is required", before.body[i].key)

\* C3: a required property whose check already has a minimum length or a
\* format validator is left exactly as the synthesizer wrote it.
C3_NonWeakening ==
  GenDone =>
    \A ns \in NamedSchemas(contract) :
      \A i \in 1..Len(ns.schema) :
        LET before == SynthOfContract[DeclIndex(SynthOfContract, ns.name)].body[i].chain
            after == clientFile.decls[DeclIndex(clientFile.decls, ns.name)].body[i].chain
        IN  (ns.schema[i].required /\ Stricter(before)) => after = before

\* C4 as stated: a required string property with only a max-length check never
\* receives the empty-string rejection.
C4_MaxOnlyNeverReinforced ==
  GenDone =>
    \A k \in 1..Len(MapOfContract) :
      LET name == MapOfContract[k].schemaName
          before == SynthOfContract[DeclIndex(SynthOfContract, name)]
          after == clientFile.decls[DeclIndex(clientFile.decls, name)]
      IN  \A i \in 1..Len(before.body) :
            (InSeq(before.body[i].key, MapOfContract[k].requiredFields)
             /\ MaxOnly(before.body[i].chain)) =>
               Accepts(after.body[i].chain, EmptyString)

\* the lines of a body occur in a declaration emitted before declaration d
OccursEarlier(decls, d) ==
  \E e \in 1..(d - 1) : \E o \in 1..Len(decls[e].body) :
    OccursAt(decls, decls[d].body, e, o)

\* C4 amended: a max-length check does not count as existing validation. In a
\* matched schema a required string property with only a max-length check gets
\* min(1) with an "is required" message ahead of its max-length, which is kept;
\* it stays unreinforced only where the rewritten body is written over the same
\* lines in an earlier declaration.
C4_MaxOnlyIsReinforced ==
  GenDone =>
    \A k \in 1..Len(MapOfContract) :
      LET name == MapOfContract[k].schemaName
          d == DeclIndex(SynthOfContract, name)
          before == SynthOfContract[d]
          after == clientFile.decls[DeclIndex(clientFile.decls, name)]
      IN  PatternFound(before, name) =>
            \A i \in 1..Len(before.body) :
              (InSeq(before.body[i].key, MapOfContract[k].requiredFields)
               /\ MaxOnly(before.body[i].chain)) =>
                 \/ /\ Len(after.body[i].chain) = 3
                    /\ after.body[i].chain[2].op = "min"
                    /\ after.body[i].chain[2].n = 1
                    /\ InSeq(after.body[i].chain[2].msg, MapOfContract[k].requiredFields)
                    /\ after.body[i].chain[3] = before.body[i].chain[2]
                    /\ ~Accepts(after.body[i].chain, EmptyString)
                 \/ /\ OccursEarlier(SynthOfContract, d)
                    /\ after.body[i].chain = before.body[i].chain

\* a required max-only property of a matched schema has been reinforced
C4_Witness ==
  /\ GenDone
  /\ \E k \in 1..Len(MapOfContract) :
       LET name == MapOfContract[k].schemaName
           before == SynthOfContract[DeclIndex(SynthOfContract, name)]
           after == clientFile.decls[DeclIndex(clientFile.decls, name)]
       IN  /\ PatternFound(before, name)
           /\ \E i \in 1..Len(before.body) :
                /\ before.body[i].chain = <<TString, TMax(LengthLimit)>>
                /\ after.body[i].chain =
                     <<TString, TMinMsg(1, before.body[i].key), TMax(LengthLimit)>>

\* C6: a schema of the required-field map whose declaration pattern is not
\* found gets no reinforcement; the reinforcer raises no error for it and
\* finishes its pass.
C6_SilentSkip ==
  (contract.kind = "doc" /\ InSeq("child:start", console)
   /\ ~InSeq("child:error", console)) =>
    /\ InSeq("child:added", console)
    /\ \A k \in 1..Len(MapOfContract) :
         LET name == MapOfContract[k].schemaName
             d == DeclIndex(SynthOfContract, name)
         IN  ~PatternFound(SynthOfContract[d], name) =>
               clientFile.decls[DeclIndex(clientFile.decls, name)] = SynthOfContract[d]

\* ------------------------------------------------------ check-endpoints.js
\* lines 32-43: every method/path/alias triple of the client file, in order
ExtractEndpoints(content) == content.endpoints

\* alias.split('.')[0]
AliasPrefix(e) == e.alias[1]

\* lines 46-65
organizeEndpoints(endpointList) ==
  LET prefixes == {AliasPrefix(endpointList[i]) : i \in 1..Len(endpointList)}
  IN  [all |-> endpointList,
       grouped |-> [p \in prefixes |->
                      SeqFilter(endpointList,
                                [i \in 1..Len(endpointList) |->
                                   AliasPrefix(endpointList[i]) = p])],
       count |-> Len(endpointList)]

\* lines 97-100
EndpointExists(info, alias) == \E i \in 1..Len(info.all) : info.all[i].alias = alias

\* faulty variant: a client without auth.login fails the auditor
RunAuditorStrict ==
  /\ IF ~clientFile.exists
     THEN /\ auditExit' = 1
          /\ extractedEndpoints' = <<>>
          /\ auditReport' = NoReport
     ELSE LET extracted == ExtractEndpoints(clientFile)
              info == organizeEndpoints(extracted)
          IN  /\ extractedEndpoints' = extracted
              /\ auditReport' = [count |-> info.count, groups |-> info.grouped,
                                 loginExists |-> EndpointExists(info, LoginId)]
              /\ auditExit' = IF EndpointExists(info, LoginId) THEN 0 ELSE 1
  /\ UNCHANGED <<contract, genVars, appVars>>

\* the whole script: lines 17-23 exit 1 without the client file
RunAuditor ==
  /\ IF ~clientFile.exists
     THEN /\ auditExit' = 1
          /\ extractedEndpoints' = <<>>
          /\ auditReport' = NoReport
     ELSE LET extracted == ExtractEndpoints(clientFile)
              info == organizeEndpoints(extracted)
          IN  /\ extractedEndpoints' = extracted
              /\ auditReport' = [count |-> info.count, groups |-> info.grouped,
                                 loginExists |-> EndpointExists(info, LoginId)]
              /\ auditExit' = 0
  /\ UNCHANGED <<contract, genVars, appVars>>

Next == Generate \/ ExportContract \/ RunAuditor
Spec == Init /\ [][Next]_vars

\* ------------------------------------------------------------ the pipeline
Count(x, s) == Cardinality({i \in 1..Len(s) : s[i] = x})
Pos(x, s) == CHOOSE i \in 1..Len(s) : s[i] = x
Before(x, y, s) == InSeq(x, s) /\ (InSeq(y, s) => Pos(x, s) < Pos(y, s))
StageStarts == <<"types:start", "validators:start", "postprocess:start", "index:created">>
StageEnds == <<"types:ok", "validators:ok", "postprocess:ok", "completed">>

\* C5: a successful run on the contract of the last successful run leaves the
\* three generated files exactly as that run left them.
C5_Idempotence ==
  [][(StageIndex /\ exitCode' = 0 /\ lastGood.valid /\ lastGood.doc = contract)
       => <<typesFile', clientFile', indexFile'>> = lastGood.files]_vars

\* two successful runs in a row on one contract, with something reinforced
C5_Witness ==
  /\ GenDone
  /\ repeats >= 2
  /\ \E d \in 1..Len(clientFile.decls) : \E i \in 1..Len(clientFile.decls[d].body) :
       HasOp(clientFile.decls[d].body[i].chain, {"min"})

\* C7 as stated: a run on a missing or unparseable contract exits non-zero and
\* leaves each file as the previous successful run left it.
C7_LeavesLastSuccessful ==
  [][(contract.kind # "doc" /\ pc # "exited" /\ pc' = "exited" /\ lastGood.valid)
       => (exitCode' = 1 /\ <<typesFile', clientFile', indexFile'>> = lastGood.files)]_vars

\* C7 amended: a run on a missing or unparseable contract never gets past the
\* types stage, exits non-zero, and leaves each of the three files exactly as
\* it was when the run started.
C7_LeavesFilesAsAtStart ==
  [][(contract.kind # "doc" /\ pc' # pc)
       => /\ pc' \in {"preflight", "types", "exited"}
          /\ <<typesFile', clientFile', indexFile'>> = atStart'
          /\ (pc' = "exited" => exitCode' = 1)]_vars

\* a run on an unparseable contract has failed over files of an earlier run
C7_Witness ==
  /\ contract.kind = "unparseable"
  /\ pc = "exited"
  /\ exitCode = 1
  /\ console = <<"types:start", "error">>
  /\ clientFile.exists
  /\ files = atStart

\* C8: the stages of a run start in the order types, validators,
\* reinforcement, index, each at most once and only after the stage before it
\* succeeded; a failure is the last thing the run does, it exits non-zero and
\* the run has not written the index.
C8_FailFastOrdering ==
  /\ \A k \in 1..4 : Count(StageStarts[k], console) <= 1
  /\ \A k \in 2..4 :
       InSeq(StageStarts[k], console) =>
         /\ InSeq(StageEnds[k - 1], console)
         /\ Pos(StageEnds[k - 1], console) < Pos(StageStarts[k], console)
  /\ \A k \in 1..4 :
       InSeq(StageEnds[k], console) => Before(StageStarts[k], StageEnds[k], console)
  /\ InSeq("error", console) =>
       /\ console[Len(console)] = "error"
       /\ Count("error", console) = 1
       /\ pc = "exited"
       /\ exitCode = 1
       /\ ~InSeq("index:created", console)
       /\ indexFile = atStart[3]
  /\ (pc = "exited" /\ exitCode = 0) => console[Len(console)] = "completed"
  /\ (pc = "exited" /\ exitCode = 1) => ~InSeq("completed", console)

\* the reinforcement stage has failed and the run stopped without an index
C8_Witness ==
  /\ pc = "exited"
  /\ exitCode = 1
  /\ InSeq("child:error", console)
  /\ InSeq("validators:ok", console)
  /\ ~indexFile.exists

\* C9: when the auditor has printed its report, every method and path of the
\* contract and every endpoint of the client file is in its endpoint list.
C9_AuditorCompleteness ==
  [][(RunAuditor /\ auditExit' = 0 /\ contract.kind = "doc")
       => /\ \A i \in 1..Len(contract.ops) :
               \E j \in 1..Len(extractedEndpoints') :
                 /\ extractedEndpoints'[j].method = contract.ops[i].method
                 /\ extractedEndpoints'[j].path = contract.ops[i].path
          /\ \A i \in 1..Len(clientFile.endpoints) :
               InSeq(clientFile.endpoints[i], extractedEndpoints')]_vars

\* C10 as stated: the auditor always exits with status zero.
C10_AlwaysExitsZero == auditExit \in {NotRun, 0}

\* C10 amended: the auditor changes neither the contract nor any generated
\* file nor the generation run, and it exits zero exactly when the client file
\* exists; without the client file it exits 1.
C10_DiagnosticOnly ==
  [][RunAuditor
       => /\ auditExit' = (IF clientFile.exists THEN 0 ELSE 1)
          /\ UNCHANGED <<contract, genVars>>]_vars

\* the auditor has listed a client without auth.login and exited zero
C10_Witness ==
  /\ auditExit = 0
  /\ auditReport.count > 0
  /\ ~auditReport.loginExists

\* ------------------------------------------- parsing an object with a schema
\* z.object({...}).passthrough().safeParse(input): every property is checked
\* on its own, a key the input lacks reads as undefined, other keys are let
\* through; the result is the set of issues, each under the path of its property
Field(input, key) == IF key \in DOMAIN input THEN input[key] ELSE Undefined

IssuesAt(body, input, i) == IssuesOf(body[i].chain, Field(input, body[i].key))

safeParse(body, input) ==
  UNION {{[path |-> body[i].key, issue |-> IssuesAt(body, input, i)[j]] :
            j \in 1..Len(IssuesAt(body, input, i))} : i \in 1..Len(body)}

NonEmptyStrings == {v \in StringValues : v.len > 0}
PlainStrings == {v \in NonEmptyStrings : v.fmt = "plain"}
EmailStrings == {v \in NonEmptyStrings : v.fmt = "email"}

\* the declaration of a named validator in the generated client file
GeneratedBody(name) == clientFile.decls[DeclIndex(clientFile.decls, name)].body
Generated(name) == GenDone /\ contract \in ScenarioDocs /\ HasDecl(clientFile.decls, name)

RequiredMessage(key) == [path |-> key, issue |-> Issue("is required", key)]
ZodRequired(key) == [path |-> key, issue |-> Issue("Required", NoMsg)]

\* C11 as stated: the generated note_store_Body rejects an empty title and an
\* absent title with the same "title is required" error and accepts a note
\* with a title and a content.
C11_NoteStoreScenario ==
  Generated(SchemaName(StoreId)) =>
    LET body == GeneratedBody(SchemaName(StoreId))
    IN  /\ \A c \in NonEmptyStrings :
             /\ safeParse(body, (Ktitle :> EmptyString) @@ (Kcontent :> c))
                  = {RequiredMessage(Ktitle)}
             /\ safeParse(body, (Kcontent :> c)) = {RequiredMessage(Ktitle)}
        /\ \A t \in NonEmptyStrings, c \in NonEmptyStrings :
             t.len <= LengthLimit => safeParse(body, (Ktitle :> t) @@ (Kcontent :> c)) = {}

\* C11 amended: the generated note_store_Body rejects an empty title with the
\* reinforcer's "title is required" message, rejects an absent title with the
\* parser's own "Required" issue under the path title, which is a different
\* error, and accepts a note with a title within the length limit and a content.
C11_NoteStoreAbsentIsRequired ==
  Generated(SchemaName(StoreId)) =>
    LET body == GeneratedBody(SchemaName(StoreId))
    IN  /\ \A c \in NonEmptyStrings :
             /\ safeParse(body, (Ktitle :> EmptyString) @@ (Kcontent :> c))
                  = {RequiredMessage(Ktitle)}
             /\ safeParse(body, (Kcontent :> c)) = {ZodRequired(Ktitle)}
        /\ \A t \in NonEmptyStrings, c \in NonEmptyStrings :
             t.len <= LengthLimit => safeParse(body, (Ktitle :> t) @@ (Kcontent :> c)) = {}

\* the repository's contract has been generated and note_store_Body reads as
\* in generated/api-client.ts
C11_Witness ==
  /\ Generated(SchemaName(StoreId))
  /\ contract = OpenApiJson
  /\ GeneratedBody(SchemaName(StoreId)) =
       <<[key |-> Ktitle, chain |-> <<TString, TMinMsg(1, Ktitle), TMax(LengthLimit)>>],
         [key |-> Kcontent, chain |-> <<TString, TMinMsg(1, Kcontent)>>]>>
  /\ safeParse(GeneratedBody(SchemaName(StoreId)), (Kcontent :> EmptyString)) # {}

InvalidEmail(key) == [path |-> key, issue |-> Issue("invalid_email", NoMsg)]

\* C12: the generated auth_login_Body rejects a password with an email that is
\* not an email address, citing the email format only; rejects a well-formed
\* email with an empty password, citing "password is required" only; and
\* accepts a well-formed email with a non-empty password.
C12_AuthLoginScenario ==
  Generated(SchemaName(LoginId)) =>
    LET body == GeneratedBody(SchemaName(LoginId))
    IN  /\ \A e \in PlainStrings, p \in NonEmptyStrings :
             safeParse(body, (Kemail :> e) @@ (Kpassword :> p)) = {InvalidEmail(Kemail)}
        /\ \A e \in EmailStrings :
             safeParse(body, (Kemail :> e) @@ (Kpassword :> EmptyString))
               = {RequiredMessage(Kpassword)}
        /\ \A e \in EmailStrings, p \in NonEmptyStrings :
             safeParse(body, (Kemail :> e) @@ (Kpassword :> p)) = {}

\* the repository's contract has been generated and auth_login_Body reads as
\* in generated/api-client.ts
C12_Witness ==
  /\ Generated(SchemaName(LoginId))
  /\ contract = OpenApiJson
  /\ GeneratedBody(SchemaName(LoginId)) =
       <<[key |-> Kemail, chain |-> <<TString, TEmail>>],
         [key |-> Kpassword, chain |-> <<TString, TMinMsg(1, Kpassword)>>]>>
  /\ \E e \in PlainStrings :
       safeParse(GeneratedBody(SchemaName(LoginId)), (Kemail :> e) @@ (Kpassword :> e)) # {}

\* the inputs that omit one property of a schema and give the others any value
KeysOf(schema) == {schema[i].key : i \in 1..Len(schema)}
\* inputs without the property; the others absent, empty or a number
InputsOmitting(schema, key) ==
  [KeysOf(schema) \ {key} -> {Undefined, EmptyString, NumberValue}]

\* C13: a property that is not in the required list of its schema raises no
\* issue when the input omits it, in the client file as synthesized and in
\* the client file as reinforced.
C13_OptionalPassThrough ==
  (contract.kind = "doc" /\ clientFile.exists /\ pc \in {"postprocess", "index", "exited"}) =>
    \A ns \in NamedSchemas(contract) :
      \A i \in 1..Len(ns.schema) :
        ~ns.schema[i].required =>
          \A input \in InputsOmitting(ns.schema, ns.schema[i].key) :
            \A issue \in safeParse(GeneratedBody(ns.name), input) :
              issue.path # ns.schema[i].key

\* the reinforcer has put min(1) into the check of an optional property
C13_Witness ==
  /\ GenDone
  /\ \E ns \in NamedSchemas(contract) :
       \E i \in 1..Len(ns.schema) :
         /\ ~ns.schema[i].required
         /\ HasOp(GeneratedBody(ns.name)[i].chain, {"min"})
         /\ GeneratedBody(ns.name)[i].chain # PropChain(ns.schema[i])
         /\ Accepts(GeneratedBody(ns.name)[i].chain, Undefined)

\* ------------------------------------------------ the hand-written schemas
\* a check with its own message, and z.string({ invalid_type_error })
XTok(op, n, message) == [op |-> op, n |-> n, msg |-> NoMsg, message |-> message]
ZString(invalid_type_error) ==
  [op |-> "string", n |-> 0, msg |-> NoMsg, message |-> "",
   invalid_type_error |-> invalid_type_error]
XMin(n, message) == XTok("min", n, message)
XMax(n, message) == XTok("max", n, message)
XEmail(message) == XTok("email", 0, message)

\* 8 characters, scaled down like 255
PasswordMin == LengthLimit

Entry(key, chain) == [key |-> key, chain |-> chain]

\* extendedSchemas.ts: the argument of each .extend({...})
ExtendedRegisterOverrides ==
  <<Entry(Kname, <<ZString("Name must be a string"), XMin(1, "Please enter your name"),
                   XMax(LengthLimit, "Name must be less than 255 characters")>>),
    Entry(Kemail, <<ZString("Email must be a string"), XMin(1, "Email is required"),
                    XMax(LengthLimit, ""), XEmail("Please enter a valid email address")>>),
    Entry(Kpassword, <<ZString("Password must be a string"),
                       XMin(PasswordMin, "Password must be at least 8 characters")>>),
    Entry(Kconfirmation, <<ZString("Password confirmation must be a string"),
                           XMin(1, "Password confirmation is required")>>)>>

\* faulty variant: the override of email has lost its format check
ExtendedLoginOverridesNoFormat ==
  <<Entry(Kemail, <<ZString("Email must be a string"), XMin(1, "Email is required")>>),
    Entry(Kpassword, <<ZString("Password must be a string"), XMin(1, "Password is required")>>)>>

ExtendedLoginOverrides ==
  <<Entry(Kemail, <<ZString("Email must be a string"), XMin(1, "Email is required"),
                    XEmail("Please enter a valid email address")>>),
    Entry(Kpassword, <<ZString("Password must be a string"), XMin(1, "Password is required")>>)>>

ExtendedNoteOverrides ==
  <<Entry(Ktitle, <<ZString("Title must be a string"), XMin(1, "Title is required"),
                    XMax(LengthLimit, "Title must be less than 255 characters")>>),
    Entry(Kcontent, <<ZString("Content must be a string"), XMin(1, "Content is required")>>)>>

\* base.extend(overrides): an overriding entry takes the place of the base
\* entry of its key, an entry with a new key is added at the end
Extend(base, overrides) ==
  LET over(key) == CHOOSE j \in 1..Len(overrides) : overrides[j].key = key
      kept == [i \in 1..Len(base) |->
                 IF \E j \in 1..Len(overrides) : overrides[j].key = base[i].key
                 THEN overrides[over(base[i].key)] ELSE base[i]]
      fresh == SeqFilter(overrides,
                         [j \in 1..Len(overrides) |->
                            \A i \in 1..Len(base) : base[i].key # overrides[j].key])
  IN  kept \o fresh

ExtendedRegisterSchema ==
  Extend(GeneratedBody(SchemaName(RegisterId)), ExtendedRegisterOverrides)
ExtendedLoginSchema == Extend(GeneratedBody(SchemaName(LoginId)), ExtendedLoginOverrides)
ExtendedNoteSchema == Extend(GeneratedBody(SchemaName(StoreId)), ExtendedNoteOverrides)

\* an input object, any value or none under each key
InputsOver(body) == [KeysOf(body) -> Values]

\* .refine(data => data.password === data.password_confirmation) runs on an
\* object whose properties raised no issue; `same` says the two are one text
RegisterAccepts(input, same) == safeParse(ExtendedRegisterSchema, input) = {} /\ same
SameIsPossible(input, same) == same => input[Kpassword] = input[Kconfirmation]

OverridesExist(base, overrides) ==
  \A j \in 1..Len(overrides) : overrides[j].key \in KeysOf(base)

\* C15: every input the Extended schema accepts is accepted by the generated
\* validator it extends, and every overridden property is a property of that
\* validator.
C15_OverrideOnlyTightens ==
  /\ Generated(SchemaName(RegisterId)) =>
       /\ OverridesExist(GeneratedBody(SchemaName(RegisterId)), ExtendedRegisterOverrides)
       /\ \A input \in InputsOver(RegisterBody), same \in BOOLEAN :
            (SameIsPossible(input, same) /\ RegisterAccepts(input, same)) =>
              safeParse(GeneratedBody(SchemaName(RegisterId)), input) = {}
  /\ Generated(SchemaName(LoginId)) =>
       /\ OverridesExist(GeneratedBody(SchemaName(LoginId)), ExtendedLoginOverrides)
       /\ \A input \in InputsOver(LoginBody) :
            safeParse(ExtendedLoginSchema, input) = {} =>
              safeParse(GeneratedBody(SchemaName(LoginId)), input) = {}
  /\ Generated(SchemaName(StoreId)) =>
       /\ OverridesExist(GeneratedBody(SchemaName(StoreId)), ExtendedNoteOverrides)
       /\ \A input \in InputsOver(StoreBody) :
            safeParse(ExtendedNoteSchema, input) = {} =>
              safeParse(GeneratedBody(SchemaName(StoreId)), input) = {}

\* the repository's contract has been generated; the register override turns
\* down a short password its base lets through, and lets a long one through
C15_Witness ==
  /\ GenDone
  /\ contract = OpenApiJson
  /\ \E input \in InputsOver(RegisterBody) :
       /\ input[Kpassword].len = 1
       /\ safeParse(GeneratedBody(SchemaName(RegisterId)), input) = {}
       /\ safeParse(ExtendedRegisterSchema, input) # {}
  /\ \E input \in InputsOver(RegisterBody) : RegisterAccepts(input, TRUE)

\* ------------------------------- authSchemas.ts, noteSchemas.ts, the forms
ZStringR(required_error, invalid_type_error) ==
  [op |-> "string", n |-> 0, msg |-> NoMsg, message |-> "",
   required_error |-> required_error, invalid_type_error |-> invalid_type_error]

LoginRequestSchema ==
  <<Entry(Kemail, <<ZString(""), XEmail("Please enter a valid email address")>>),
    Entry(Kpassword, <<ZString(""), XMin(1, "Password is required")>>)>>

RegisterRequestSchema ==
  <<Entry(Kname, <<ZStringR("Name is required", "Name must be a string"),
                   XMin(1, "Name is required")>>),
    Entry(Kemail, <<ZStringR("Email is required", "Email must be a string"),
                    XMin(1, "Email is required"),
                    XEmail("Please enter a valid email address")>>),
    Entry(Kpassword, <<ZStringR("Password is required", "Password must be a string"),
                       XMin(PasswordMin, "Password must be at least 8 characters")>>),
    Entry(Kconfirmation,
          <<ZStringR("Password confirmation is required",
                     "Password confirmation must be a string"),
            XMin(1, "Password confirmation is required")>>)>>

CreateNoteRequestSchema ==
  <<Entry(Ktitle, <<ZStringR("Title is required for creating a note", "Title must be a string"),
                    XMin(1, "Title is required")>>),
    Entry(Kcontent, <<ZStringR("Content is required for creating a note",
                               "Content must be a string"),
                      XMin(1, "Content is required")>>)>>

\* the message of an issue: the one given to the check, else the stock one
Given(t, name, stock) ==
  IF name \in DOMAIN t /\ t[name] # "" THEN t[name]
  ELSE IF name = "message" /\ t.msg # NoMsg THEN "is required"
  ELSE stock

CheckMessage(t, v) ==
  IF TokenIssues(t, v) = <<>> THEN <<>>
  ELSE <<Given(t, "message", TokenIssues(t, v)[1].code)>>

RECURSIVE ChecksMessages(_, _)
ChecksMessages(toks, v) ==
  IF toks = <<>> THEN <<>>
  ELSE CheckMessage(toks[1], v) \o ChecksMessages(Tail(toks), v)

\* the value stops the parse of its property: absent, or not of the type
Aborts(chain, v) ==
  IF v = Undefined THEN \A i \in 1..Len(chain) : chain[i].op # "optional"
  ELSE v.t # BaseType(chain[1])

MessagesOf(chain, v) ==
  IF v = Undefined /\ ~Aborts(chain, v) THEN <<>>
  ELSE IF v = Undefined THEN <<Given(chain[1], "required_error", "Required")>>
  ELSE IF Aborts(chain, v) THEN <<Given(chain[1], "invalid_type_error", "Invalid type")>>
  ELSE ChecksMessages(Tail(chain), v)

MessagesAt(body, input, key) ==
  LET i == CHOOSE j \in 1..Len(body) : body[j].key = key
  IN  IF key \in KeysOf(body) THEN MessagesOf(body[i].chain, Field(input, key)) ELSE <<>>

\* the refine of the register schemas runs unless a property stopped the parse
RefineMessages(body, input, same, key) ==
  IF key = Kconfirmation /\ ~same
     /\ \A i \in 1..Len(body) : ~Aborts(body[i].chain, Field(input, body[i].key))
  THEN <<"Passwords don't match">>
  ELSE <<>>

\* error.errors of schema.safeParse(input), path by path; refined says the
\* schema ends in the .refine of the register schemas
ZodError(body, refined, input, same) ==
  [k \in FormKeys |->
     MessagesAt(body, input, k)
     \o (IF refined THEN RefineMessages(body, input, same, k) ELSE <<>>)]

Success(zodError) == \A k \in FormKeys : zodError[k] = <<>>

\* handleError of useFormErrors on a ZodError: the first message of each path
FieldErrorsOf(zodError) ==
  [k \in FormKeys |-> IF zodError[k] = <<>> THEN "" ELSE zodError[k][1]]

\* what the user has typed, email and name trimmed
Plain(l) == [t |-> "string", len |-> l, fmt |-> "plain"]
Email(l) == [t |-> "string", len |-> l, fmt |-> "email"]
LoginForm(e, p) == [input |-> (Kemail :> e) @@ (Kpassword :> p), same |-> TRUE]
LoginInputs ==
  {LoginForm(Email(LengthLimit), Plain(1)),
   LoginForm(EmptyString, Plain(1)),
   LoginForm(Email(LengthLimit), EmptyString)}
RegisterForm(n, e, p, c) ==
  [input |-> (Kname :> n) @@ (Kemail :> e) @@ (Kpassword :> p) @@ (Kconfirmation :> c),
   same |-> c = p]
RegisterInputs ==
  {RegisterForm(Plain(1), Email(LengthLimit), Plain(MaxStrLen), Plain(MaxStrLen)),
   RegisterForm(Plain(1), Email(LengthLimit), Plain(1), Plain(1)),
   RegisterForm(Plain(1), Email(LengthLimit), Plain(MaxStrLen), EmptyString)}
NoteForm(t, c) == [input |-> (Ktitle :> t) @@ (Kcontent :> c), same |-> TRUE]
NoteInputs ==
  {NoteForm(Plain(1), Plain(1)),
   NoteForm(EmptyString, Plain(1)),
   NoteForm(Plain(MaxStrLen), Plain(1))}

\* ------------------------------------------------------------ tokenStore.ts
hasToken == token \notin {Null, ""}

\* ------------------------------------------------------------- apiClient.ts
NoHeader == <<>>
Bearer(t) == <<"Bearer", t>>

Config(op, input, same) ==
  [via |-> "apiClient", op |-> op, Authorization |-> NoHeader,
   input |-> input, same |-> same, user_id |-> "none"]

\* faulty variant: the header is written whether or not a token is stored
requestInterceptorAlways(config, stored) ==
  [config EXCEPT !.Authorization = Bearer(stored)]

\* lines 106-115: the request interceptor, reading the store as it is now
requestInterceptor(config, stored) ==
  IF stored \notin {Null, ""}
  THEN [config EXCEPT !.Authorization = Bearer(stored)]
  ELSE config

\* axiosInstance.post / get: the request leaves with the next id
Request(id, config, stored) ==
  [id |-> id] @@ requestInterceptor(config, stored)

\* ------------------------------------------------ the query cache (useAuth)
invalidateQueries(q) == IF q.exists THEN [q EXCEPT !.isInvalidated = TRUE] ELSE q
resetQueries(q) == IF q.exists THEN [NoQuery EXCEPT !.exists = TRUE] ELSE q
setQueryData(q, data) ==
  [q EXCEPT !.exists = TRUE, !.data = data, !.status = "success", !.isInvalidated = FALSE]
removeQueries(q) == NoQuery

\* the query is waiting for a response or for its retry
Fetching(q) == q.fetch # 0
RetryWait == -1

\* an enabled observer fetches a query without data or marked invalid
NeedsFetch(q) ==
  /\ ~Fetching(q)
  /\ \/ ~q.exists
     \/ q.isInvalidated
     \/ (q.status = "pending" /\ q.data = NoData)

fetchUser(q, id) == [q EXCEPT !.exists = TRUE, !.fetch = id]

\* ----------------------------------------------------------- the screens
Submission(id, valid, fi) ==
  [id |-> id, valid |-> valid, input |-> fi.input, same |-> fi.same,
   hadErrors |-> errors # NoErrors, handled |-> 0]

\* mutationFn has thrown before any request was made
Thrown(id, op) == [NoResponse EXCEPT !.id = id, !.op = op, !.status = -1]

\* the user changes the route; the screen left is unmounted, and a notes list
\* that is mounted finds its query stale (staleTime 0)
Navigate ==
  /\ task = Idle
  /\ \E to \in {"login", "register", "home", "notes"} \ {screen} : screen' = to
  /\ formData' = NoFormData
  /\ errors' = NoErrors
  /\ notesQuery' = IF screen' = "notes" THEN invalidateQueries(notesQuery) ELSE notesQuery
  /\ UNCHANGED <<contract, genVars, auditVars, bootVars, token, userQuery, pending, task,
                 netVars, backendVars>>

\* faulty variant: the login form calls the mutation without validating
SubmitLoginUnchecked ==
  /\ task = Idle
  /\ screen = "login"
  /\ formData.id \notin pending
  /\ sent < MaxRequests
  /\ \E fi \in LoginInputs :
       /\ formData' = Submission(sent + 1, TRUE, fi)
       /\ requests' = requests
            \cup {Request(sent + 1, Config("login", fi.input, fi.same), token)}
  /\ errors' = NoErrors
  /\ pending' = pending \cup {sent + 1}
  /\ responses' = responses
  /\ sent' = sent + 1
  /\ UNCHANGED <<contract, genVars, auditVars, bootVars, notesQuery, token, userQuery, screen, task,
                 backendVars>>

\* LoginScreen.handleLogin, lines 55-110, up to the request leaving
SubmitLogin ==
  /\ task = Idle
  /\ screen = "login"
  /\ formData.id \notin pending
  /\ \E fi \in LoginInputs :
       LET zodError == ZodError(LoginRequestSchema, FALSE, fi.input, fi.same)
           id == sent + 1
       IN  IF ~Success(zodError)
           THEN /\ formData' = Submission(0, FALSE, fi)
                /\ errors' = [fieldErrors |-> FieldErrorsOf(zodError), generalError |-> ""]
                /\ UNCHANGED <<pending, netVars>>
           ELSE /\ sent < MaxRequests
                /\ formData' = Submission(id, TRUE, fi)
                /\ errors' = NoErrors
                /\ pending' = pending \cup {id}
                /\ requests' = requests \cup {Request(id, Config("login", fi.input, fi.same), token)}
                /\ responses' = responses
                /\ sent' = id
  /\ UNCHANGED <<contract, genVars, auditVars, bootVars, notesQuery, token, userQuery, screen, task, backendVars>>

\* RegisterScreen.handleRegister, lines 56-106, up to the request leaving;
\* apiClient.auth.register parses the data with RegisterRequestSchema first
SubmitRegister ==
  /\ task = Idle
  /\ screen = "register"
  /\ formData.id \notin pending
  /\ \E fi \in RegisterInputs :
       LET zodError == ZodError(ExtendedRegisterSchema, TRUE, fi.input, fi.same)
           parsed == Success(ZodError(RegisterRequestSchema, TRUE, fi.input, fi.same))
           id == sent + 1
       IN  IF ~Success(zodError)
           THEN /\ formData' = Submission(0, FALSE, fi)
                /\ errors' = [fieldErrors |-> FieldErrorsOf(zodError), generalError |-> ""]
                /\ UNCHANGED <<pending, netVars, task>>
           ELSE /\ sent < MaxRequests
                /\ formData' = Submission(id, TRUE, fi)
                /\ errors' = NoErrors
                /\ pending' = pending \cup {id}
                /\ sent' = id
                /\ responses' = responses
                /\ IF parsed
                   THEN /\ requests' = requests
                             \cup {Request(id, Config("register", fi.input, fi.same), token)}
                        /\ task' = task
                   ELSE /\ requests' = requests
                        /\ task' = Task("settle", Thrown(id, "register"), hasToken)
  /\ UNCHANGED <<contract, genVars, auditVars, bootVars, notesQuery, token, userQuery, screen, backendVars>>

isAuthenticated ==
  /\ userQuery.exists
  /\ userQuery.data \in Users
  /\ userQuery.status = "success"
  /\ hasToken

\* NotesScreen.handleAddNoteSubmit: the form is rendered for an authenticated
\* user; apiClient.notes.createNote parses the data with CreateNoteRequestSchema
SubmitNote ==
  /\ task = Idle
  /\ screen = "notes"
  /\ isAuthenticated
  /\ formData.id \notin pending
  /\ sent < MaxRequests
  /\ \E fi \in NoteInputs :
       LET parsed == Success(ZodError(CreateNoteRequestSchema, FALSE, fi.input, fi.same))
           id == sent + 1
       IN  /\ formData' = Submission(id, parsed, fi)
           /\ pending' = pending \cup {id}
           /\ sent' = id
           /\ responses' = responses
           /\ IF parsed
              THEN /\ requests' = requests
                        \cup {Request(id, Config("createNote", fi.input, fi.same), token)}
                   /\ task' = task
              ELSE /\ requests' = requests
                   /\ task' = Task("settle", Thrown(id, "createNote"), hasToken)
  /\ errors' = NoErrors
  /\ UNCHANGED <<contract, genVars, auditVars, bootVars, notesQuery, token, userQuery, screen, backendVars>>

\* HomeScreen.handleLogout: the button is rendered when there is a user
ClickLogout ==
  /\ task = Idle
  /\ screen = "home"
  /\ userQuery.exists
  /\ userQuery.data \in Users
  /\ formData.id \notin pending
  /\ sent < MaxRequests
  /\ formData' = [NoFormData EXCEPT !.id = sent + 1]
  /\ pending' = pending \cup {sent + 1}
  /\ requests' = requests \cup {Request(sent + 1, Config("logout", <<>>, TRUE), token)}
  /\ responses' = responses
  /\ sent' = sent + 1
  /\ UNCHANGED <<contract, genVars, auditVars, bootVars, notesQuery, token, userQuery, screen, errors, task,
                 backendVars>>

\* useAuth lines 194-200: the user query fetches once a render sees a token
StartUserFetch ==
  /\ task = Idle
  /\ hasToken
  /\ NeedsFetch(userQuery)
  /\ sent < MaxRequests
  /\ userQuery' = fetchUser(userQuery, sent + 1)
  /\ requests' = requests \cup {Request(sent + 1, Config("getUser", <<>>, TRUE), token)}
  /\ responses' = responses
  /\ sent' = sent + 1
  /\ UNCHANGED <<contract, genVars, auditVars, bootVars, notesQuery, token, pending, screen, formData, errors,
                 task, backendVars>>

\* retry: 1, the second attempt of a failed fetch
RetryUserFetch ==
  /\ task = Idle
  /\ userQuery.fetch = RetryWait
  /\ sent < MaxRequests
  /\ userQuery' = [userQuery EXCEPT !.fetch = sent + 1]
  /\ requests' = requests \cup {Request(sent + 1, Config("getUser", <<>>, TRUE), token)}
  /\ responses' = responses
  /\ sent' = sent + 1
  /\ UNCHANGED <<contract, genVars, auditVars, bootVars, notesQuery, token, pending, screen, formData, errors,
                 task, backendVars>>

\* useGetNotes: the mounted notes list fetches its query
StartNotesFetch ==
  /\ task = Idle
  /\ screen \in {"notes", "ProtectedNotesPage"}
  /\ NeedsFetch(notesQuery)
  /\ sent < MaxRequests
  /\ notesQuery' = fetchUser(notesQuery, sent + 1)
  /\ requests' = requests \cup {Request(sent + 1, Config("getNotes", <<>>, TRUE), token)}
  /\ responses' = responses
  /\ sent' = sent + 1
  /\ UNCHANGED <<contract, genVars, auditVars, bootVars, token, userQuery, pending, screen, formData,
                 errors, task, backendVars>>

\* ------------------------------------------------------------- the backend
Response(r, status, tok, user, fields, list) ==
  [id |-> r.id, via |-> r.via, op |-> r.op, status |-> status, token |-> tok,
   user |-> user, fields |-> fields, notes |-> list]

Outcome(resp, toks, ns) == [response |-> resp, accessTokens |-> toks, notes |-> ns]

\* auth:sanctum: the owner of the token of the header, if it is a live one
Authenticated(r) ==
  LET held == {a \in accessTokens : ~a.deleted /\ r.Authorization = Bearer(a.token)}
  IN  IF held = {} THEN "none" ELSE (CHOOSE a \in held : TRUE).owner

Guarded(op) == op \in {"logout", "getUser", "createNote"}

\* $request->validate: the fields that break a rule
Invalid(r) ==
  LET v(key) == Field(r.input, key)
      required(key) == IF v(key) \in NonEmptyStrings THEN {} ELSE {key}
      max(key) == IF v(key).len > LengthLimit THEN {key} ELSE {}
      email(key) == IF v(key) \in EmailStrings THEN {} ELSE {key}
  IN  CASE r.op = "login" -> email(Kemail) \cup required(Kpassword)
        [] r.op = "register" ->
             required(Kname) \cup max(Kname) \cup email(Kemail) \cup max(Kemail)
             \cup required(Kpassword)
             \cup (IF v(Kpassword).len < PasswordMin \/ ~r.same THEN {Kpassword} ELSE {})
        [] r.op = "createNote" -> required(Ktitle) \cup max(Ktitle) \cup required(Kcontent)
        [] OTHER -> {}

\* createToken: a token that was never given out before
createToken(user) ==
  LET unused == Tokens \ {a.token : a \in accessTokens}
  IN  {[token |-> t, owner |-> user, deleted |-> FALSE] :
         t \in IF "t1" \in unused THEN {"t1"} ELSE unused}

\* AuthController::login and ::register answer with a new token of the user
WithToken(r, status) ==
  {Outcome(Response(r, status, a.token, a.owner, {}, {}), accessTokens \cup {a}, notes) :
     a \in UNION {createToken(u) : u \in Users}}

Refused(r, status, fields) ==
  {Outcome(Response(r, status, "", "", fields, {}), accessTokens, notes)}

\* AuthController::logout: the token of the request is deleted
logout(r) ==
  {Outcome(Response(r, 200, "", "", {}, {}),
           {IF r.Authorization = Bearer(a.token) THEN [a EXCEPT !.deleted = TRUE] ELSE a :
              a \in accessTokens},
           notes)}

\* faulty variant: the note is given the user id the request body names
storeFromBody(r) ==
  LET note == [id |-> Cardinality(notes) + 1, user_id |-> r.user_id,
               title |-> Field(r.input, Ktitle)]
  IN  {Outcome(Response(r, 201, "", "", {}, {note}), accessTokens, notes \cup {note})}

\* NoteController::store, once the request is authenticated and valid
store(r) ==
  LET note == [id |-> Cardinality(notes) + 1, user_id |-> Authenticated(r),
               title |-> Field(r.input, Ktitle)]
  IN  {Outcome(Response(r, 201, "", "", {}, {note}), accessTokens, notes \cup {note})}

\* routes/api.php with the controllers behind it
Handle(r) ==
  IF Guarded(r.op) /\ Authenticated(r) = "none" THEN Refused(r, 401, {})
  ELSE IF Invalid(r) # {} THEN Refused(r, 422, Invalid(r))
  ELSE CASE r.op = "login" -> Refused(r, 422, {Kemail}) \cup WithToken(r, 200)
         [] r.op = "register" -> Refused(r, 422, {Kemail}) \cup WithToken(r, 201)
         [] r.op = "logout" -> logout(r)
         [] r.op = "getUser" ->
              {Outcome(Response(r, 200, "", Authenticated(r), {}, {}), accessTokens, notes)}
         [] r.op = "getNotes" ->
              {Outcome(Response(r, 200, "", "", {}, notes), accessTokens, notes)}
         [] r.op = "createNote" -> store(r)

Serve ==
  /\ \E r \in requests :
       /\ requests' = requests \ {r}
       /\ \E out \in Handle(r) :
            /\ responses' = responses \cup {out.response}
            /\ accessTokens' = out.accessTokens
            /\ notes' = out.notes
  /\ UNCHANGED <<contract, genVars, auditVars, bootVars, clientVars, sent>>

\* the request gets no response (status 0), or the server fails on it
Fault ==
  /\ \E r \in requests, status \in {0, 500} :
       /\ requests' = requests \ {r}
       /\ responses' = responses \cup {Response(r, status, "", "", {}, {})}
  /\ UNCHANGED <<contract, genVars, auditVars, bootVars, clientVars, sent, backendVars>>

\* a 200 to login or register whose body has an empty token, or none
ServeWithoutToken ==
  /\ \E r \in requests, tok \in {"", Null} :
       /\ r.op \in {"login", "register"}
       /\ requests' = requests \ {r}
       /\ responses' = responses \cup {Response(r, 200, tok, "bob", {}, {})}
  /\ UNCHANGED <<contract, genVars, auditVars, bootVars, clientVars, sent, backendVars>>

\* another client of the backend: any route, any header, any claimed user
OtherRequests ==
  {[id |-> 0, via |-> "other", op |-> op, Authorization |-> h,
    input |-> (Ktitle :> title) @@ (Kcontent :> Plain(1)) @@ (Kemail :> Email(LengthLimit))
              @@ (Kpassword :> Plain(LengthLimit)) @@ (Kname :> Plain(1)),
    same |-> TRUE, user_id |-> u] :
     op \in {"login", "logout", "getUser", "getNotes", "createNote"},
     h \in {NoHeader, Bearer("forged")} \cup {Bearer(t) : t \in Tokens},
     title \in {EmptyString, Plain(1)},
     u \in Users}

OtherClient ==
  /\ Cardinality(requests) + Cardinality(responses) < MaxInFlight
  /\ Cardinality(notes) < MaxNotes
  /\ \E r \in OtherRequests : requests' = requests \cup {r}
  /\ UNCHANGED <<contract, genVars, auditVars, bootVars, clientVars, responses, sent, backendVars>>

\* ------------------------------------------------- responses at the client
Failed(resp) == resp.status \notin {200, 201}

\* faulty variant: every failed response clears the token
responseInterceptorAnyFailure(stored, resp) ==
  IF Failed(resp) THEN Null ELSE stored

\* apiClient.ts lines 139-187: the response interceptor; what it returns is
\* the response, or the rejection with the same error
responseInterceptor(stored, resp) ==
  IF Failed(resp) /\ resp.status = 401 THEN Null ELSE stored

\* a response arrives and goes through the interceptor; the callbacks that
\* follow see the observers as the last render left them, which came before
\* or after the interceptor's write to the store
Receive ==
  /\ task = Idle
  /\ \E resp \in responses :
       /\ resp.via = "apiClient"
       /\ responses' = responses \ {resp}
       /\ token' = responseInterceptor(token, resp)
       /\ \E enabled \in {hasToken, token' \notin {Null, ""}} :
            task' = Task("settle", resp, enabled)
  /\ UNCHANGED <<contract, genVars, auditVars, bootVars, userQuery, notesQuery, pending, screen,
                 formData, errors, requests, sent, backendVars>>

\* the other client takes its response
OtherReceive ==
  /\ \E resp \in responses :
       /\ resp.via = "other"
       /\ responses' = responses \ {resp}
  /\ UNCHANGED <<contract, genVars, auditVars, bootVars, clientVars, requests, sent, backendVars>>

\* the promise of the mutationFn or queryFn resolves: the response is a
\* success and its body parses with the response schema
Resolves(resp) ==
  /\ ~Failed(resp)
  /\ resp.op \in {"login", "register"} => resp.token # Null

\* refetchQueries of invalidateQueries and resetQueries: an existing query
\* with an enabled observer is fetched again, a fetch under way is replaced
Refetch(q, enabled, id) == IF q.exists /\ enabled THEN [q EXCEPT !.fetch = id] ELSE q
Refetched(q, enabled) == q.exists /\ enabled

\* faulty variant: a failed login leaves the store alone
loginSettledKeepsToken(resp, enabled) ==
  IF Resolves(resp) /\ resp.token # ""
  THEN [token |-> resp.token, userQuery |-> invalidateQueries(userQuery)]
  ELSE IF Resolves(resp) THEN [token |-> Null, userQuery |-> resetQueries(userQuery)]
  ELSE [token |-> token, userQuery |-> resetQueries(userQuery)]

\* useAuth: onSuccess and onError of loginMutation, lines 96-130
loginSettled(resp, enabled) ==
  IF Resolves(resp) /\ resp.token # ""
  THEN [token |-> resp.token, userQuery |-> invalidateQueries(userQuery)]
  ELSE [token |-> Null, userQuery |-> resetQueries(userQuery)]

\* useAuth: onSuccess and onError of registerMutation, lines 146-175
registerSettled(resp, enabled) ==
  IF Resolves(resp) /\ resp.token # ""
  THEN [token |-> resp.token, userQuery |-> invalidateQueries(userQuery)]
  ELSE [token |-> token, userQuery |-> userQuery]

\* faulty variant: a failed logout keeps the session
logoutSettledOnSuccessOnly(resp, enabled) ==
  IF Resolves(resp)
  THEN [token |-> Null, userQuery |-> removeQueries(setQueryData(userQuery, Null))]
  ELSE [token |-> token, userQuery |-> userQuery]

\* useAuth: onSuccess and onError of logoutMutation, lines 218-232
logoutSettled(resp, enabled) ==
  [token |-> Null, userQuery |-> removeQueries(setQueryData(userQuery, Null))]

\* the component that called mutate is still mounted
Mounted(resp) == formData.id = resp.id

\* the hook-level callbacks of a mutation of useAuth
SettleAuth ==
  /\ task.phase = "settle"
  /\ task.resp.op \in {"login", "register", "logout"}
  /\ LET resp == task.resp
         after == CASE resp.op = "login" -> loginSettled(resp, task.enabled)
                    [] resp.op = "register" -> registerSettled(resp, task.enabled)
                    [] resp.op = "logout" -> logoutSettled(resp, task.enabled)
         again == after.userQuery # userQuery /\ Refetched(after.userQuery, task.enabled)
                  /\ resp.op # "logout"
     IN  /\ token' = after.token
         /\ userQuery' = IF again THEN Refetch(after.userQuery, TRUE, sent + 1)
                         ELSE after.userQuery
         /\ requests' = IF again
                        THEN requests
                             \cup {Request(sent + 1, Config("getUser", <<>>, TRUE), after.token)}
                        ELSE requests
         /\ sent' = IF again THEN sent + 1 ELSE sent
         /\ pending' = pending \ {resp.id}
         /\ task' = IF Mounted(resp) THEN Task("component", resp, task.enabled) ELSE Idle
  /\ UNCHANGED <<contract, genVars, auditVars, bootVars, notesQuery, screen, formData, errors,
                 responses, backendVars>>

\* faulty variant: useCreateNote without the invalidation of onSuccess
SettleNoteKeepsList ==
  /\ task.phase = "settle"
  /\ task.resp.op = "createNote"
  /\ pending' = pending \ {task.resp.id}
  /\ errors' = IF Mounted(task.resp) /\ ~Resolves(task.resp)
               THEN [NoErrors EXCEPT !.generalError = "Error creating note"]
               ELSE errors
  /\ task' = Idle
  /\ UNCHANGED <<contract, genVars, auditVars, bootVars, token, userQuery, notesQuery, screen,
                 formData, netVars, backendVars>>

\* useCreateNote: onSuccess invalidates the notes query; NotesScreen shows
\* createNoteError.message
SettleNote ==
  /\ task.phase = "settle"
  /\ task.resp.op = "createNote"
  /\ LET resp == task.resp
         again == Resolves(resp) /\ Refetched(notesQuery, screen = "notes")
     IN  /\ notesQuery' = IF ~Resolves(resp) THEN notesQuery
                          ELSE Refetch(invalidateQueries(notesQuery), again, sent + 1)
         /\ requests' = IF again
                        THEN requests
                             \cup {Request(sent + 1, Config("getNotes", <<>>, TRUE), token)}
                        ELSE requests
         /\ sent' = IF again THEN sent + 1 ELSE sent
         /\ pending' = pending \ {resp.id}
         /\ errors' = IF Mounted(resp) /\ ~Resolves(resp)
                      THEN [NoErrors EXCEPT !.generalError = "Error creating note"]
                      ELSE errors
         /\ task' = Idle
  /\ UNCHANGED <<contract, genVars, auditVars, bootVars, token, userQuery, screen, formData,
                 responses, backendVars>>

Retries(op) == IF op = "getUser" THEN 1 ELSE 3

\* the result of a fetch: data, or a retry, or the error state
Fetched(q, resp) ==
  IF q.fetch # resp.id THEN q
  ELSE IF Resolves(resp)
  THEN [q EXCEPT !.data = IF resp.op = "getUser" THEN resp.user ELSE resp.notes,
                 !.status = "success", !.isInvalidated = FALSE, !.fetch = 0,
                 !.failureCount = 0]
  ELSE IF q.failureCount < Retries(resp.op)
  THEN [q EXCEPT !.failureCount = @ + 1, !.fetch = RetryWait]
  ELSE [q EXCEPT !.status = "error", !.fetch = 0, !.failureCount = 0]

SettleQuery ==
  /\ task.phase = "settle"
  /\ task.resp.op \in {"getUser", "getNotes"}
  /\ userQuery' = IF task.resp.op = "getUser" THEN Fetched(userQuery, task.resp) ELSE userQuery
  /\ notesQuery' = IF task.resp.op = "getNotes" THEN Fetched(notesQuery, task.resp)
                   ELSE notesQuery
  /\ task' = Idle
  /\ UNCHANGED <<contract, genVars, auditVars, bootVars, token, pending, screen, formData, errors,
                 netVars, backendVars>>

\* useFormErrors.handleError on the error of a mutation
handleError(resp, isAuthError) ==
  IF resp.status = -1
  THEN [fieldErrors |->
          FieldErrorsOf(ZodError(RegisterRequestSchema, TRUE, formData.input, formData.same)),
        generalError |-> ""]
  ELSE IF ~Failed(resp)
  THEN [NoErrors EXCEPT !.fieldErrors[Ktoken] = "Required"]
  ELSE IF resp.fields # {}
  THEN [fieldErrors |-> [k \in FormKeys |-> IF k \in resp.fields THEN "The field is invalid."
                                            ELSE ""],
        generalError |-> ""]
  ELSE IF isAuthError
  THEN [NoErrors EXCEPT !.generalError = "Authentication failed. Please try again."]
  ELSE [NoErrors EXCEPT !.generalError = "An unexpected error occurred."]

\* the callbacks given to mutate by the screen
Component ==
  /\ task.phase = "component"
  /\ LET resp == task.resp
     IN  IF resp.op = "logout" \/ Resolves(resp)
         THEN /\ screen' = IF resp.op = "logout" THEN "login" ELSE "home"
              /\ formData' = NoFormData
              /\ errors' = NoErrors
              /\ task' = Idle
         ELSE /\ screen' = screen
              /\ formData' = [formData EXCEPT !.handled = @ + 1]
              /\ errors' = handleError(resp, resp.op = "login")
              /\ task' = Task("await", resp, task.enabled)
  /\ UNCHANGED <<contract, genVars, auditVars, bootVars, token, userQuery, notesQuery, pending,
                 netVars, backendVars>>

\* the catch around mutateAsync, with the errors of the render of the click
Await ==
  /\ task.phase = "await"
  /\ IF formData.hadErrors
     THEN UNCHANGED <<formData, errors>>
     ELSE /\ formData' = [formData EXCEPT !.handled = @ + 1]
          /\ errors' = handleError(task.resp, task.resp.op = "login")
  /\ task' = Idle
  /\ UNCHANGED <<contract, genVars, auditVars, bootVars, token, userQuery, notesQuery, pending, screen,
                 netVars, backendVars>>

RetryNotesFetch ==
  /\ task = Idle
  /\ notesQuery.fetch = RetryWait
  /\ sent < MaxRequests
  /\ notesQuery' = [notesQuery EXCEPT !.fetch = sent + 1]
  /\ requests' = requests \cup {Request(sent + 1, Config("getNotes", <<>>, TRUE), token)}
  /\ responses' = responses
  /\ sent' = sent + 1
  /\ UNCHANGED <<contract, genVars, auditVars, bootVars, token, userQuery, pending, screen, formData,
                 errors, task, backendVars>>

\* ------------------------------------------------------ the application
\* src/generated as the generation run on openapi.json leaves it
GeneratedClient(doc) ==
  WriteFile(Absent,
            addRequiredValidationToZodSchemas(getRequiredFieldsFromOpenAPI(doc),
                                              WriteFile(Absent, Synthesize(doc))))

\* the application starts with the generated package in place; the token
\* store holds nothing, or a token persisted by an earlier session
InitApp ==
  /\ contract = OpenApiJson
  /\ outDir = TRUE
  /\ typesFile = WriteFile(Absent, ProjectTypes(contract))
  /\ clientFile = GeneratedClient(contract)
  /\ indexFile = WriteFile(Absent, IndexContent)
  /\ pc = "exited"
  /\ exitCode = 0
  /\ console = <<>>
  /\ runsLeft = 0
  /\ atStart = <<Absent, Absent, Absent>>
  /\ lastGood = [valid |-> TRUE, doc |-> contract,
                 files |-> <<typesFile, clientFile, IndexContent>>]
  /\ repeats = 1
  /\ auditExit = NotRun
  /\ extractedEndpoints = <<>>
  /\ auditReport = NoReport
  /\ \E persisted \in {Null, "t1"}, live \in BOOLEAN :
       /\ token = persisted
       /\ storage = persisted
       /\ accessTokens = IF persisted # Null
                         THEN {[token |-> persisted, owner |-> "alice", deleted |-> ~live]}
                         ELSE {}
  /\ userQuery = NoQuery
  /\ notesQuery = NoQuery
  /\ pending = {}
  /\ hydrated = TRUE
  /\ screen = "login"
  /\ formData = NoFormData
  /\ errors = NoErrors
  /\ requests = {}
  /\ responses = {}
  /\ task = Idle
  /\ sent = 0
  /\ notes = {}

NextApp ==
  \/ Navigate \/ SubmitLogin \/ SubmitRegister \/ SubmitNote \/ ClickLogout
  \/ StartUserFetch \/ RetryUserFetch \/ StartNotesFetch \/ RetryNotesFetch
  \/ Serve \/ Fault \/ ServeWithoutToken
  \/ Receive \/ SettleAuth \/ SettleNote \/ SettleQuery \/ Component \/ Await
SpecApp == InitApp /\ [][NextApp]_vars

\* the backend by itself, serving whatever clients send
NextBackend == OtherClient \/ Serve \/ OtherReceive
SpecBackend == InitApp /\ [][NextBackend]_vars

\* ------------------------------------------------- the protected pages
\* useAuth line 272: userQuery.isLoading, a first fetch under way or about
\* to start for an enabled observer
isLoadingUser ==
  /\ userQuery.status = "pending"
  /\ \/ Fetching(userQuery)
     \/ (hasToken /\ NeedsFetch(userQuery))

\* tokenStore.ts lines 20-33: persist reads SecureStorage.getItem, which is
\* async, and merges what it finds into the store
Rehydrate ==
  /\ task = Idle
  /\ ~hydrated
  /\ hydrated' = TRUE
  /\ token' = IF storage # Null THEN storage ELSE token
  /\ UNCHANGED <<contract, genVars, auditVars, storage, userQuery, notesQuery, pending,
                 screen, formData, errors, task, netVars, backendVars>>

\* the effect of ProtectedHomePage: router.replace('/notes')
ProtectedHomePage ==
  /\ task = Idle
  /\ screen = "ProtectedHomePage"
  /\ ~isLoadingUser
  /\ ~isAuthenticated
  /\ screen' = "notes"
  /\ UNCHANGED <<contract, genVars, auditVars, bootVars, token, userQuery, notesQuery,
                 pending, formData, errors, task, netVars, backendVars>>

\* the effect of ProtectedNotesScreen: onUnauthorized(), which the page
\* answers with router.push('/login')
ProtectedNotesScreen ==
  /\ task = Idle
  /\ screen = "ProtectedNotesPage"
  /\ ~isLoadingUser
  /\ ~isAuthenticated
  /\ screen' = "login"
  /\ UNCHANGED <<contract, genVars, auditVars, bootVars, token, userQuery, notesQuery,
                 pending, formData, errors, task, netVars, backendVars>>

\* the application opens on a protected page before the store has read
\* the storage
InitProtected ==
  /\ contract = OpenApiJson
  /\ outDir = TRUE
  /\ typesFile = WriteFile(Absent, ProjectTypes(contract))
  /\ clientFile = GeneratedClient(contract)
  /\ indexFile = WriteFile(Absent, IndexContent)
  /\ pc = "exited"
  /\ exitCode = 0
  /\ console = <<>>
  /\ runsLeft = 0
  /\ atStart = <<Absent, Absent, Absent>>
  /\ lastGood = [valid |-> TRUE, doc |-> contract,
                 files |-> <<typesFile, clientFile, IndexContent>>]
  /\ repeats = 1
  /\ auditExit = NotRun
  /\ extractedEndpoints = <<>>
  /\ auditReport = NoReport
  /\ token = Null
  /\ hydrated = FALSE
  /\ \E persisted \in {Null, "t1"}, live \in BOOLEAN :
       /\ storage = persisted
       /\ accessTokens = IF persisted # Null
                         THEN {[token |-> persisted, owner |-> "alice", deleted |-> ~live]}
                         ELSE {}
  /\ userQuery = NoQuery
  /\ notesQuery = NoQuery
  /\ pending = {}
  /\ screen \in {"ProtectedHomePage", "ProtectedNotesPage"}
  /\ formData = NoFormData
  /\ errors = NoErrors
  /\ requests = {}
  /\ responses = {}
  /\ task = Idle
  /\ sent = 0
  /\ notes = {}

NextProtected ==
  \/ Rehydrate \/ ProtectedHomePage \/ ProtectedNotesScreen
  \/ StartUserFetch \/ RetryUserFetch \/ StartNotesFetch \/ RetryNotesFetch
  \/ Serve \/ Fault \/ Receive \/ SettleQuery
SpecProtected == InitProtected /\ [][NextProtected]_vars

\* ------------------------------------------------------ the notes screen
\* the notes screen is open for a logged-in user, the list loaded; the
\* backend may have revoked the token since
InitNotes ==
  /\ contract = OpenApiJson
  /\ outDir = TRUE
  /\ typesFile = WriteFile(Absent, ProjectTypes(contract))
  /\ clientFile = GeneratedClient(contract)
  /\ indexFile = WriteFile(Absent, IndexContent)
  /\ pc = "exited"
  /\ exitCode = 0
  /\ console = <<>>
  /\ runsLeft = 0
  /\ atStart = <<Absent, Absent, Absent>>
  /\ lastGood = [valid |-> TRUE, doc |-> contract,
                 files |-> <<typesFile, clientFile, IndexContent>>]
  /\ repeats = 1
  /\ auditExit = NotRun
  /\ extractedEndpoints = <<>>
  /\ auditReport = NoReport
  /\ token = "t1"
  /\ storage = "t1"
  /\ hydrated = TRUE
  /\ \E live \in BOOLEAN :
       accessTokens = {[token |-> "t1", owner |-> "alice", deleted |-> ~live]}
  /\ userQuery = setQueryData(fetchUser(NoQuery, 0), "alice")
  /\ notesQuery = setQueryData(fetchUser(NoQuery, 0), {})
  /\ pending = {}
  /\ screen = "notes"
  /\ formData = NoFormData
  /\ errors = NoErrors
  /\ requests = {}
  /\ responses = {}
  /\ task = Idle
  /\ sent = 0
  /\ notes = {}

NextNotes ==
  \/ Navigate \/ SubmitNote \/ StartNotesFetch
  \/ Serve \/ Receive \/ SettleNote \/ SettleQuery

\* the backend answers the requests it has, and the client runs the
\* callbacks of the responses it has
SpecNotes ==
  /\ InitNotes
  /\ [][NextNotes]_vars
  /\ WF_vars(Serve)
  /\ WF_vars(Receive)
  /\ WF_vars(SettleNote)
  /\ WF_vars(SettleQuery)

\* ------------------------------------------------------------ the claims
\* the Extended schema of the form of a screen
ExtendedOf(s) ==
  CASE s = "login" -> ExtendedLoginSchema
    [] s = "register" -> ExtendedRegisterSchema
    [] OTHER -> ExtendedNoteSchema

\* C14: for every invalid input submitted in the login, register or note
\* form, each field error message the form displays is the message the
\* Extended schema of that form produces for that field.
C14_FormMessagesFromExtended ==
  (task = Idle /\ ~formData.valid /\ formData.id \notin pending
   /\ screen \in {"login", "register", "notes"})
  => \A k \in FormKeys :
       errors.fieldErrors[k] =
         FieldErrorsOf(ZodError(ExtendedOf(screen), screen = "register",
                                formData.input, formData.same))[k]

\* C16: every request sent through the API client while a token is stored
\* carries Authorization: Bearer <token> with the token stored at the moment
\* the request is sent, and a request sent while no token is stored carries no
\* Authorization header.
C16_BearerAttachment ==
  [][\A r \in requests' \ requests :
       r.via = "apiClient"
       => r.Authorization = IF token' \notin {Null, ""} THEN Bearer(token') ELSE NoHeader]_vars

C16_Witness ==
  \E r \in requests :
    /\ r.via = "apiClient" /\ r.op = "getUser" /\ r.id > 1
    /\ token \in {a.token : a \in accessTokens} \ {"t1"}
    /\ r.Authorization = Bearer(token)

\* C17: listing notes (GET /notes) needs no authentication, while a note is
\* created only by a request carrying a valid API token, and the created
\* note's user_id is always the id of the authenticated user and never a value
\* taken from the request body.
C17_NotesAccessRule ==
  [][/\ \A resp \in responses' \ responses : resp.op = "getNotes" => resp.status = 200
     /\ notes' # notes
        => \E r \in requests \ requests' :
             /\ r.op = "createNote"
             /\ Authenticated(r) \in Users
             /\ \A n \in notes' \ notes : n.user_id = Authenticated(r)]_vars

C17_Witness ==
  \E n \in notes, resp \in responses :
    /\ n.user_id \in Users
    /\ resp.op = "createNote" /\ resp.status = 401

\* C18: once a logout mutation settles, whether the logout call succeeded or
\* failed, the stored token is null and the ['auth','user'] query is removed,
\* and this already holds when the onSuccess or onError callback supplied by
\* the component runs.
C18_LogoutEndsLoggedOut ==
  [][/\ (task.phase = "settle" /\ task.resp.op = "logout" /\ task' # task)
        => (token' = Null /\ userQuery' = NoQuery /\ task.resp.id \notin pending')
     /\ (task.phase = "component" /\ task.resp.op = "logout")
        => (token = Null /\ userQuery = NoQuery /\ UNCHANGED <<token, userQuery>>)]_vars

C18_Witness ==
  /\ task.phase = "component"
  /\ task.resp.op = "logout"
  /\ Failed(task.resp)
  /\ token = Null

\* the state queryClient.resetQueries leaves a query in
IsReset(q) ==
  /\ q.data = NoData
  /\ q.status = "pending"
  /\ ~q.isInvalidated
  /\ q.failureCount = 0

\* C19: after a login mutation settles, the stored token equals the token of
\* the login response if the call succeeded with a non-empty token, and is
\* null otherwise (failed call, or success without a token), whatever was
\* stored before the attempt; in the null case the ['auth','user'] query is
\* reset.
C19_LoginPostcondition ==
  [][(task.phase = "settle" /\ task.resp.op = "login" /\ task' # task)
     => /\ task'.phase # "settle"
        /\ task.resp.id \notin pending'
        /\ IF task.resp.status \in {200, 201} /\ task.resp.token \notin {Null, ""}
           THEN token' = task.resp.token
           ELSE token' = Null /\ IsReset(userQuery')]_vars

C19_Witness ==
  /\ task.phase = "component"
  /\ task.resp.op = "login"
  /\ task.resp.status = 422
  /\ sent = 1
  /\ \E a \in accessTokens : ~a.deleted
  /\ token = Null

\* C20: the response interceptor clears the stored token if and only if the
\* failed response has status 401; for a failed response with any other
\* status, or with no response at all, it leaves the token unchanged; in every
\* case it re-rejects the error so the original caller also receives the
\* failure.
C20_InterceptorClearsOn401Only ==
  [][(task = Idle /\ task' # Idle /\ responses' # responses)
     => LET resp == task'.resp
        IN  /\ resp \in responses \ responses'
            /\ task'.phase = "settle"
            /\ Failed(resp) => ~Resolves(task'.resp)
            /\ token' = IF Failed(resp) /\ resp.status = 401 THEN Null ELSE token]_vars

C20_Witness ==
  /\ task.phase = "settle"
  /\ task.resp.status = 401
  /\ token = Null
  /\ \E a \in accessTokens : a.deleted

\* C21: the user-profile query runs only when a token is present: no
\* GET /auth/user request, including a retry of a failed attempt, is ever
\* issued while the stored token is null.
C21_UserQueryOnlyWithToken ==
  [][\A r \in requests' \ requests :
       (r.via = "apiClient" /\ r.op = "getUser") => token' # Null]_vars

\* the request schema apiClient parses the payload of an operation with
RequestSchemaOf(op) ==
  CASE op = "login" -> LoginRequestSchema
    [] op = "register" -> RegisterRequestSchema
    [] OTHER -> CreateNoteRequestSchema

\* C22: no request to POST /auth/login, POST /auth/register or POST /notes is
\* sent unless its payload passes the corresponding request schema, and
\* LoginScreen and RegisterScreen do not invoke their mutation at all when
\* client-side validation of the form data fails.
C22_ValidationGatesNetwork ==
  [][/\ \A r \in requests' \ requests :
          (r.via = "apiClient" /\ r.op \in {"login", "register", "createNote"})
          => Success(ZodError(RequestSchemaOf(r.op), r.op = "register", r.input, r.same))
     /\ (task = Idle /\ screen \in {"login", "register"} /\ screen' = screen
         /\ formData' # formData
         /\ ~Success(ZodError(IF screen = "login" THEN LoginRequestSchema
                              ELSE ExtendedRegisterSchema,
                              screen = "register", formData'.input, formData'.same)))
        => (pending' = pending /\ requests' = requests /\ task' = Idle)]_vars

C22_Witness ==
  /\ screen = "register"
  /\ ~formData.valid
  /\ ~formData.same
  /\ errors.fieldErrors[Kconfirmation] # ""
  /\ sent = 0
  /\ pending = {}

\* C23: a failed login or register API call is processed by handleError
\* exactly once: when the per-call onError callback has handled the error,
\* the catch around mutateAsync does not process it a second time, on the
\* first submission as well as on later ones.
C23_HandledOnce ==
  [][(task.phase = "await" /\ task' # task /\ formData.handled >= 1)
     => formData'.handled = formData.handled]_vars

\* the storage holds a token the backend accepts
ValidPersistedToken ==
  /\ storage # Null
  /\ \E a \in accessTokens : a.token = storage /\ ~a.deleted

\* C24: ProtectedHomePage's redirect to /notes and ProtectedNotesScreen's
\* onUnauthorized never fire for a user who holds a valid persisted token,
\* in particular not while the token is still being rehydrated or while the
\* user-profile fetch for it has not completed.
C24_ProtectedPagesWait ==
  [][(screen \in {"ProtectedHomePage", "ProtectedNotesPage"} /\ screen' # screen)
     => ~ValidPersistedToken]_vars

\* the create-note mutation whose callbacks are about to run succeeded
NoteCreated(n) ==
  /\ task.phase = "settle"
  /\ task.resp.op = "createNote"
  /\ Resolves(task.resp)
  /\ n \in task.resp.notes

\* the notes list is on screen
Observed == screen = "notes"

Listed(n) == notesQuery.status = "success" /\ n \in notesQuery.data

PossibleNotes ==
  [id : 1..MaxNotes, user_id : Users, title : {Field(fi.input, Ktitle) : fi \in NoteInputs}]

OwnerOfToken(t) ==
  IF \E a \in accessTokens : a.token = t
  THEN (CHOOSE a \in accessTokens : a.token = t).owner
  ELSE "none"

\* C26: whenever useAuth reports isAuthenticated as true, the user it
\* exposes is the profile of the owner of the currently stored token: a
\* cached profile fetched with an earlier token is never presented as
\* authenticated together with a different user's token.
C26_UserIsOwnerOfToken ==
  (task = Idle /\ isAuthenticated) => userQuery.data = OwnerOfToken(token)

====
